---- MODULE Spec2Model ----
(***************************************************************************)
(* A model of zakzak's measurement engine, registry and process wrapper:   *)
(*   - Benchmark.getSamples, getMaxCycles, cycle and execute               *)
(*   - Benchmark.constructor and the option merges                         *)
(*   - SuiteManager.addFiles, addSuite and addBenchmark                    *)
(*   - BenchmarkProcess.run and its event listeners                        *)
(*   - Analytics: the statistics of a batch of samples                     *)
(*   - SuiteManager.addSetup and addTeardown, the propagation of setups    *)
(*     and teardowns to the benchmarks, and Benchmark.start                *)
(*   - getReducedSamples of the cpu-profile-converter                      *)
(* Each component has its own specification (SpecSamples, SpecCycles,      *)
(* SpecTimedCycles, SpecSuites, SpecOptions, SpecDeclarations,             *)
(* SpecProcess, SpecAnalytics, SpecAnyConfidence, SpecTScore, SpecSetups,  *)
(* SpecStart, SpecThrows, SpecProfile); the variables of the other         *)
(* components stay at their initial values.                                *)
(***************************************************************************)
EXTENDS Integers, Sequences, FiniteSets, TLC

VARIABLES
    \* ---- Benchmark.getSamples ----
    options,      \* this.options of the benchmark being measured
    samples,      \* local `samples` of getSamples
    cycles,       \* local `cycles` of getSamples
    pcSamples,    \* position in getSamples: "idle", "min", "more", "done"
    \* ---- Benchmark.getMaxCycles / cycle ----
    result,       \* local `result` of getMaxCycles: [count, finished]
    minTime,      \* parameter minTime of getMaxCycles
    fnTime,       \* time one call of the measured function takes
    tried,        \* history: the <<count, time>> pairs cycle() has measured
    pcCycles,     \* position in getMaxCycles: "idle", "loop", "done"
    \* ---- SuiteManager ----
    managerOptions, \* SuiteManager.options
    nodes,        \* the Suite and Benchmark objects created, in creation order
    currentPath,  \* SuiteManager.currentPath (indices into nodes)
    callStack,    \* the suites whose callback() is executing, outermost first
    benchmarks,   \* SuiteManager.benchmarks (indices into nodes)
    suites,       \* SuiteManager.suites (indices into nodes)
    files,        \* SuiteManager.files (indices into nodes)
    \* ---- BenchmarkProcess and its worker ----
    pcRun,        \* "new" before run(), "threw" or "returned" after it
    child,        \* BenchmarkProcess.child
    message,      \* BenchmarkProcess.message
    messageListener, \* a "message" listener is registered on the worker
    exitListener, \* the "exit" listener of startProcess is registered
    startMessages, \* the StartMessages sent to the worker
    worker,       \* the forked process: [state, code]
    channel,      \* messages the worker sent that the parent has not yet seen
    exitPending,  \* the worker's "exit" event is emitted and not yet handled
    outcome,      \* the promise of startProcess: [state, message, reason]
    thrown,       \* the exceptions that escaped, by where they were thrown
    lastSent,     \* history: the last message the worker sent
    \* ---- Analytics ----
    batch,        \* the batch of samples the Analytics functions are called with
    analysis,     \* the FullAnalysis last returned by getFullAnalysis
    marginOfError, \* the last call of getMarginOfError: [confidence, value]
    tScore,       \* the last call of getTScore: [confidence, value]
    \* ---- Benchmark.start ----
    pcStart,      \* position in start(): "idle", "setups", "calibrate",
                  \* "sample", "teardowns", "returned", or "threw"
    self,         \* the benchmark start() runs on (index into nodes)
    loopIndex,    \* the loop variable i of the setup and teardown loops
    invoked,      \* history: the setup and teardown callbacks invoked, in order
    attempts,     \* history: how often start() calibrated and sampled
    stats,        \* local `stats` of start()
    maxTries,     \* the maxTries option the benchmark was configured with
    \* ---- cpu-profile-converter ----
    cpuProfile,   \* the profile getReducedSamples is called with: [samples, timeDeltas]
    reduced       \* what getReducedSamples returned last

samplesVars == <<options, samples, cycles, pcSamples>>
cyclesVars == <<result, minTime, fnTime, tried, pcCycles>>
suiteVars == <<managerOptions, nodes, currentPath, callStack, benchmarks, suites, files>>
processVars == <<pcRun, child, message, messageListener, exitListener,
                 startMessages, worker, channel, exitPending, outcome, thrown,
                 lastSent>>
analyticsVars == <<batch, analysis, marginOfError, tScore>>
startVars == <<pcStart, self, loopIndex, invoked, attempts, stats, maxTries>>
profileVars == <<cpuProfile, reduced>>
vars == <<samplesVars, cyclesVars, suiteVars, processVars, analyticsVars, startVars,
          profileVars>>

----------------------------------------------------------------------------
(* Bounds of the model *)

MaxMinSamples == 3
MaxMaxSamples == 3
MaxMaxTime == 3
MaxSampleTime == 2
MaxMinTime == 12
MaxFnTime == 5
MaxCount == 200
MaxNodes == 3
MaxChannel == 3
MaxBatch == 3
MaxSampleHalves == 3
MaxSetups == 1
MaxTries == 2
MaxResolution == 1
MaxLongBatch == 1002
MaxBatchTime == 4
MaxPasses == 3
MaxProfileLen == 3
MaxSampleId == 2
MaxTimeDelta == 2

----------------------------------------------------------------------------
(* Helpers *)

Max(a, b) == IF a >= b THEN a ELSE b

\* lodash sum(samples)
RECURSIVE sum(_)
sum(s) == IF s = <<>> THEN 0 ELSE s[1] + sum(Tail(s))

----------------------------------------------------------------------------
(* ExitMessage and the promise of BenchmarkProcess.startProcess *)

\* The value of BenchmarkProcess.message before any assignment.
UndefinedMessage == [tag |-> "undefined", result |-> "undefined", error |-> "undefined"]

\* ExitMessage { result?, error? }
ExitMessage(r, e) == [tag |-> "object", result |-> r, error |-> e]

PendingOutcome ==
    [state |-> "pending", message |-> UndefinedMessage, reason |-> "undefined"]

----------------------------------------------------------------------------
(* BenchmarkOptions and lodash's merges *)

Keys == {"minTime", "maxTime", "minSamples", "maxSamples"}

\* The value of an option key: a number, null, or undefined (the key absent).
Num(v) == [tag |-> "number", val |-> v]
Null == [tag |-> "null", val |-> 0]
Absent == [tag |-> "undefined", val |-> 0]

\* {}
EmptyOptions == [k \in Keys |-> Absent]

\* DefaultBenchmarkOptions (config/options.ts): a value for every key.
DefaultBenchmarkOptions ==
    [minTime |-> Num(1), maxTime |-> Num(2), minSamples |-> Num(2),
     maxSamples |-> Num(3)]

\* lodash _.merge(object, source) on flat option objects: an undefined source
\* value is skipped, every other value (null too) is assigned.
merge(object, source) ==
    [k \in Keys |-> IF source[k] = Absent THEN object[k] ELSE source[k]]

\* lodash _.mergeWith(object, source, (a, b) => b === null ? a : undefined):
\* a null source value keeps the destination's value a; when a is undefined
\* the customizer's result is undefined and the source value is assigned.
mergeWith(object, source) ==
    [k \in Keys |->
        IF source[k] = Absent THEN object[k]
        ELSE IF source[k] = Null /\ object[k] # Absent THEN object[k]
        ELSE source[k]]

ConstructorMinSamplesBug(opts) ==
    IF opts.minSamples.tag = "number" THEN opts.minSamples ELSE Absent

\* The local minSamples of Benchmark.constructor.
ConstructorMinSamples(opts) ==
    IF opts.minSamples.tag = "number"
       THEN IF opts.minSamples.val >= 1 THEN opts.minSamples
            ELSE DefaultBenchmarkOptions.minSamples
       ELSE Absent

\* Benchmark.constructor: this.options = mergeWith({}, DefaultBenchmarkOptions,
\* options, { minSamples }, customizer). addSuite and addBenchmark never pass
\* a null options object.
BenchmarkConstructor(opts) ==
    mergeWith(mergeWith(mergeWith(EmptyOptions, DefaultBenchmarkOptions), opts),
              [EmptyOptions EXCEPT !.minSamples = ConstructorMinSamples(opts)])

\* Suite.constructor (suite.ts): the options merged over the defaults, as
\* the test "should merge options with default options" states.
SuiteConstructor(opts) == merge(merge(EmptyOptions, DefaultBenchmarkOptions), opts)

\* SuiteManager.constructor: this.options = _.merge({}, DefaultBenchmarkOptions, options)
ManagerConstructor(opts) == merge(merge(EmptyOptions, DefaultBenchmarkOptions), opts)

----------------------------------------------------------------------------
(* Benchmark.getSamples *)

\* The option sets a constructed Benchmark can hold (the constructor keeps
\* minSamples >= 1); minTime is not read by getSamples.
ResolvedOptions ==
    [minSamples : 1..MaxMinSamples, maxSamples : 0..MaxMaxSamples,
     maxTime : 0..MaxMaxTime]

\* What Timer.getTime() differences can be for one batch.
SampleTimes == 0..MaxSampleTime

\* A constructed Benchmark whose getSamples is about to be called; the other
\* components are not running.
InitSamples ==
    /\ options \in ResolvedOptions
    /\ samples = <<>>
    /\ cycles = 0
    /\ pcSamples = "idle"
    /\ result = [count |-> 1, finished |-> FALSE]
    /\ minTime = 0
    /\ fnTime = 1
    /\ tried = {}
    /\ pcCycles = "idle"
    /\ managerOptions = DefaultBenchmarkOptions
    /\ nodes = <<>>
    /\ currentPath = <<>>
    /\ callStack = <<>>
    /\ benchmarks = <<>>
    /\ suites = <<>>
    /\ files = <<>>
    /\ pcRun = "new"
    /\ child = "undefined"
    /\ message = UndefinedMessage
    /\ messageListener = FALSE
    /\ exitListener = FALSE
    /\ startMessages = <<>>
    /\ worker = [state |-> "none", code |-> 0]
    /\ channel = <<>>
    /\ exitPending = FALSE
    /\ outcome = PendingOutcome
    /\ thrown = <<>>
    /\ lastSent = UndefinedMessage
    /\ cpuProfile = [samples |-> <<>>, timeDeltas |-> <<>>]
    /\ reduced = [called |-> FALSE]
    /\ batch = <<>>
    /\ analysis = [done |-> FALSE]
    /\ marginOfError = [called |-> FALSE]
    /\ tScore = [called |-> FALSE]
    /\ pcStart = "idle"
    /\ self = 0
    /\ loopIndex = 0
    /\ invoked = <<>>
    /\ attempts = 0
    /\ stats = [done |-> FALSE]
    /\ maxTries = 1

\* const samples = []; let cycles = this.options.minSamples;
GetSamplesEnter ==
    /\ pcSamples = "idle"
    /\ samples' = <<>>
    /\ cycles' = options.minSamples
    /\ pcSamples' = "min"
    /\ UNCHANGED <<options, cyclesVars, suiteVars, processVars, analyticsVars, startVars, profileVars>>

\* The test of `while (cycles--)`: the value before the decrement decides.
MinLoopContinuesBug(c) == c - 1 # 0

MinLoopContinues(c) == c # 0

\* One pass of `while (cycles--) { samples.push(this.execute(count)) }`,
\* or the loop's exit.
GetSamplesMinLoop ==
    /\ pcSamples = "min"
    /\ cycles' = cycles - 1
    /\ IF MinLoopContinues(cycles)
          THEN /\ \E time \in SampleTimes : samples' = Append(samples, time)
               /\ pcSamples' = "min"
          ELSE /\ samples' = samples
               /\ pcSamples' = "more"
    /\ UNCHANGED <<options, cyclesVars, suiteVars, processVars, analyticsVars, startVars, profileVars>>

MoreLoopContinuesBug(s, o) ==
    sum(s) < o.maxTime /\ Len(s) <= o.maxSamples

\* sum(samples) < maxTime && samples.length < maxSamples
MoreLoopContinues(s, o) ==
    sum(s) < o.maxTime /\ Len(s) < o.maxSamples

\* One pass of the second loop, or `return samples`.
GetSamplesMoreLoop ==
    /\ pcSamples = "more"
    /\ IF MoreLoopContinues(samples, options)
          THEN /\ \E time \in SampleTimes : samples' = Append(samples, time)
               /\ pcSamples' = "more"
          ELSE /\ samples' = samples
               /\ pcSamples' = "done"
    /\ UNCHANGED <<options, cycles, cyclesVars, suiteVars, processVars, analyticsVars, startVars, profileVars>>

NextSamples == GetSamplesEnter \/ GetSamplesMinLoop \/ GetSamplesMoreLoop

SpecSamples == InitSamples /\ [][NextSamples]_vars

----------------------------------------------------------------------------
(* Claims about getSamples *)

\* C1: the sample sequence getSamples returns holds at least minSamples
\* samples, whatever the options and the timings.
C1_AtLeastMinSamples ==
    pcSamples = "done" => Len(samples) >= options.minSamples

\* A run that returned exactly minSamples samples because the time budget was
\* already used up, although maxSamples would have allowed more.
C1_Witness ==
    /\ pcSamples = "done"
    /\ Len(samples) = options.minSamples
    /\ options.maxSamples > options.minSamples
    /\ sum(samples) >= options.maxTime

\* C2 as stated: the number of samples never exceeds maxSamples, also when
\* minSamples is greater than maxSamples.
C2_AtMostMaxSamples ==
    pcSamples = "done" => Len(samples) <= options.maxSamples

\* C2 amended: the number of samples never exceeds the larger of minSamples
\* and maxSamples (so never maxSamples when minSamples <= maxSamples).
C2_AtMostMaxOfMinAndMax ==
    pcSamples = "done" =>
        Len(samples) <= Max(options.minSamples, options.maxSamples)

\* A run in which the second loop collected samples up to maxSamples.
C2_Witness ==
    /\ pcSamples = "done"
    /\ options.minSamples < options.maxSamples
    /\ Len(samples) = options.maxSamples
    /\ sum(samples) < options.maxTime

----------------------------------------------------------------------------
(* Benchmark.getMaxCycles / Benchmark.cycle / Benchmark.execute *)

\* Math.ceil(a / b) for b > 0
Ceil(a, b) == -((-a) \div b)

\* execute(count): the measured function takes fnTime per call, so the batch
\* of count calls takes count * fnTime between the two Timer.getTime() reads.
execute(count) == count * fnTime

NextCountBug(count, time, min) == count * 2

\* const nextCount = count + (time <= 0 ? count * 100 : Math.ceil(timeLeft / period))
\* with period = time / count and timeLeft = minTime - time.
NextCount(count, time, min) ==
    count + (IF time <= 0 THEN count * 100 ELSE Ceil((min - time) * count, time))

CycleContinuesBug(time, min) == time >= min

\* if (time <= minTime) return { count: nextCount, finished: false }
CycleContinues(time, min) == time <= min

\* cycle(count, minTime)
cycle(count, min) ==
    LET time == execute(count)
    IN  IF CycleContinues(time, min)
           THEN [count |-> NextCount(count, time, min), finished |-> FALSE]
           ELSE [count |-> count, finished |-> TRUE]

\* The state of getMaxCycles's caller: the effective minTime and the measured
\* function's speed are inputs; the other components are not running.
InitCycles ==
    /\ minTime \in 0..MaxMinTime
    /\ fnTime \in 0..MaxFnTime
    /\ result = [count |-> 1, finished |-> FALSE]
    /\ tried = {}
    /\ pcCycles = "idle"
    /\ options = [minSamples |-> 1, maxSamples |-> 1, maxTime |-> 0]
    /\ samples = <<>>
    /\ cycles = 0
    /\ pcSamples = "idle"
    /\ managerOptions = DefaultBenchmarkOptions
    /\ nodes = <<>>
    /\ currentPath = <<>>
    /\ callStack = <<>>
    /\ benchmarks = <<>>
    /\ suites = <<>>
    /\ files = <<>>
    /\ pcRun = "new"
    /\ child = "undefined"
    /\ message = UndefinedMessage
    /\ messageListener = FALSE
    /\ exitListener = FALSE
    /\ startMessages = <<>>
    /\ worker = [state |-> "none", code |-> 0]
    /\ channel = <<>>
    /\ exitPending = FALSE
    /\ outcome = PendingOutcome
    /\ thrown = <<>>
    /\ lastSent = UndefinedMessage
    /\ cpuProfile = [samples |-> <<>>, timeDeltas |-> <<>>]
    /\ reduced = [called |-> FALSE]
    /\ batch = <<>>
    /\ analysis = [done |-> FALSE]
    /\ marginOfError = [called |-> FALSE]
    /\ tScore = [called |-> FALSE]
    /\ pcStart = "idle"
    /\ self = 0
    /\ loopIndex = 0
    /\ invoked = <<>>
    /\ attempts = 0
    /\ stats = [done |-> FALSE]
    /\ maxTries = 1

\* let result = { count: 1, finished: false };
GetMaxCyclesEnter ==
    /\ pcCycles = "idle"
    /\ result' = [count |-> 1, finished |-> FALSE]
    /\ tried' = {}
    /\ pcCycles' = "loop"
    /\ UNCHANGED <<minTime, fnTime, samplesVars, suiteVars, processVars, analyticsVars, startVars, profileVars>>

\* One pass of `while (result.finished === false) result = this.cycle(...)`.
\* The count is capped for the model: a function faster than the timer
\* (fnTime = 0) multiplies it by 101 in every pass.
GetMaxCyclesLoop ==
    /\ pcCycles = "loop"
    /\ result.finished = FALSE
    /\ result.count <= MaxCount
    /\ result' = cycle(result.count, minTime)
    /\ tried' = tried \cup {<<result.count, execute(result.count)>>}
    /\ UNCHANGED <<pcCycles, minTime, fnTime, samplesVars, suiteVars, processVars, analyticsVars, startVars, profileVars>>

\* return result.count;
GetMaxCyclesReturn ==
    /\ pcCycles = "loop"
    /\ result.finished = TRUE
    /\ pcCycles' = "done"
    /\ UNCHANGED <<result, tried, minTime, fnTime, samplesVars, suiteVars, processVars, analyticsVars, startVars, profileVars>>

NextCycles == GetMaxCyclesEnter \/ GetMaxCyclesLoop \/ GetMaxCyclesReturn

SpecCycles == InitCycles /\ [][NextCycles]_vars

----------------------------------------------------------------------------
(* Claims about getMaxCycles *)

\* The counts cycle() tried whose batch time reached minTime.
ReachedCounts == {p[1] : p \in {q \in tried : q[2] >= minTime}}

\* C3: for a function taking a constant positive time per call, the count
\* getMaxCycles returns satisfies count * t >= minTime.
C3_CountReachesMinTime ==
    (pcCycles = "done" /\ fnTime > 0) => result.count * fnTime >= minTime

\* A calibration that had to raise the count before it returned.
C3_Witness ==
    /\ pcCycles = "done"
    /\ fnTime > 0
    /\ minTime > fnTime
    /\ result.count > 1

\* C4: for a function taking a constant positive time per call, the count
\* returned differs from ceil(minTime / t) by at most 1 and is the smallest
\* count tried whose batch time reached minTime.
C4_CountNearCeil ==
    (pcCycles = "done" /\ fnTime > 0) =>
        /\ result.count - Ceil(minTime, fnTime) \in {-1, 0, 1}
        /\ result.count \in ReachedCounts
        /\ \A c \in ReachedCounts : result.count <= c

\* A calibration that returned exactly ceil(minTime / t) after trying a
\* smaller count.
C4_Witness ==
    /\ pcCycles = "done"
    /\ fnTime > 1
    /\ result.count = Ceil(minTime, fnTime)
    /\ result.count > 2
    /\ Cardinality(tried) = 2

----------------------------------------------------------------------------
(* SuiteManager *)

\* Names a declaration can carry; any string is accepted, ':' included.
Names == {"A", "b", "A:b"}

FileNames == {"f.js", "g.js"}

\* Option objects a declaration or the manager is given: at most one key set,
\* to null, to 0 or to 4. The merges treat minTime, maxTime and maxSamples
\* alike, so the inputs set minSamples or one of the others.
InputKeys == {"minSamples", "maxTime"}

OptionInputs ==
    {EmptyOptions} \cup
    {[EmptyOptions EXCEPT ![k] = v] : k \in InputKeys, v \in {Null, Num(0), Num(4)}}

\* Option objects a benchmark is declared with: a negative minSamples too
BenchmarkOptionInputs == OptionInputs \cup {[EmptyOptions EXCEPT !.minSamples = Num(-1)]}

\* Option objects a SuiteManager is constructed with.
ManagerInputs == {EmptyOptions, [EmptyOptions EXCEPT !.maxTime = Num(0)]}

\* _.join(path, ":")
RECURSIVE join(_, _)
join(path, sep) ==
    IF Len(path) = 0 THEN ""
    ELSE IF Len(path) = 1 THEN path[1]
    ELSE path[1] \o sep \o join(Tail(path), sep)

\* this.currentPath.map(v => v.name)
PathNames == [i \in 1..Len(currentPath) |-> nodes[currentPath[i]].name]

PathIdBug(name) ==
    IF currentPath = <<>> THEN name
    ELSE join(<<nodes[currentPath[Len(currentPath)]].name, name>>, ":")

\* const currentPath = this.currentPath.map(v => v.name).concat(name);
\* const id = _.join(currentPath, ":");
PathId(name) == join(Append(PathNames, name), ":")

\* _.last(this.currentPath)
LastOfPath == currentPath[Len(currentPath)]

MergedOptionsBug(parentOptions, opts) == merge(merge(EmptyOptions, opts), parentOptions)

\* const mergedOptions = _.merge({}, parent.getOptions(), options);
\* (with DefaultBenchmarkOptions for parent.getOptions() on an empty path)
MergedOptions(parentOptions, opts) == merge(merge(EmptyOptions, parentOptions), opts)

\* An object created by `new Suite(...)` or `new Benchmark(...)`. declared is
\* the options argument of the declaration, kept for the claims.
NewNode(kind, id, name, filename, opts, declared) ==
    [kind |-> kind, id |-> id, name |-> name, filename |-> filename,
     options |-> opts, declared |-> declared, children |-> <<>>,
     setups |-> <<>>, teardowns |-> <<>>]

prependSetupBug(setups, fn) == setups \o fn

\* Benchmark.prependSetup: this.setups.unshift(...fn)
prependSetup(setups, fn) == fn \o setups

\* Benchmark.addTeardown: this.teardowns.push(...fn)
addTeardown(teardowns, fn) == teardowns \o fn

\* Benchmark.applySetupAndTeardown(setups, teardowns)
BenchmarkApplySetupAndTeardown(node, setups, teardowns) ==
    [node EXCEPT !.setups = prependSetup(@, setups),
                 !.teardowns = addTeardown(@, teardowns)]

\* The suites and benchmarks below node n
RECURSIVE Descendants(_)
Descendants(n) ==
    LET kids == {nodes[n].children[c] : c \in 1..Len(nodes[n].children)}
    IN  kids \cup UNION {Descendants(k) : k \in kids}

\* Suite.applySetupAndTeardown() of suite n: every benchmark below the suite
\* is handed the suite's setups and teardowns.
SuiteApplySetupAndTeardown(n) ==
    [b \in 1..Len(nodes) |->
        IF nodes[b].kind = "benchmark" /\ b \in Descendants(n)
           THEN BenchmarkApplySetupAndTeardown(nodes[b], nodes[n].setups, nodes[n].teardowns)
           ELSE nodes[b]]

\* nodes after `new ...` of node and, on a non-empty path, parent.addChild(node)
WithNode(node) ==
    LET n == Len(nodes) + 1
    IN  IF currentPath = <<>> THEN Append(nodes, node)
        ELSE Append([nodes EXCEPT ![LastOfPath].children = Append(@, n)], node)

\* addFiles, one filename of the forEach, up to the require(filename) inside
\* currentSuite.callback(). Node's require loads a file once per process.
AddFilesEnter(filename) ==
    /\ callStack = <<>>
    /\ Len(nodes) < MaxNodes
    /\ \A i \in 1..Len(nodes) : nodes[i].kind = "file" => nodes[i].name # filename
    /\ nodes' = Append(nodes, NewNode("file", filename, filename, filename,
                                      SuiteConstructor(managerOptions), EmptyOptions))
    /\ currentPath' = <<Len(nodes) + 1>>
    /\ callStack' = <<Len(nodes) + 1>>
    /\ UNCHANGED <<managerOptions, benchmarks, suites, files>>

\* addFiles, after the file's callback returned:
\* currentSuite.applySetupAndTeardown(); suites.push; files.push.
AddFilesReturn ==
    /\ Len(callStack) = 1
    /\ nodes[callStack[1]].kind = "file"
    /\ nodes' = SuiteApplySetupAndTeardown(callStack[1])
    /\ suites' = Append(suites, callStack[1])
    /\ files' = Append(files, callStack[1])
    /\ callStack' = <<>>
    /\ UNCHANGED <<managerOptions, currentPath, benchmarks>>

\* addSuite up to the call of currentSuite.callback()
AddSuiteEnter(name, opts) ==
    /\ Len(nodes) < MaxNodes
    /\ LET id == PathId(name)
           filename == IF currentPath # <<>> THEN nodes[currentPath[1]].name ELSE "name"
           parentOptions == IF currentPath # <<>> THEN nodes[LastOfPath].options
                            ELSE DefaultBenchmarkOptions
           mergedOptions == MergedOptions(parentOptions, opts)
       IN  nodes' = WithNode(NewNode("suite", id, name, filename,
                                     SuiteConstructor(mergedOptions), opts))
    /\ currentPath' = Append(currentPath, Len(nodes) + 1)
    /\ callStack' = Append(callStack, Len(nodes) + 1)
    /\ UNCHANGED <<managerOptions, benchmarks, suites, files>>

popBug(path) == path

\* this.currentPath.pop(): the path without its last suite
pop(path) == SubSeq(path, 1, Len(path) - 1)

\* addSuite after the callback returned: applySetupAndTeardown();
\* this.currentPath.pop(); this.suites.push(currentSuite)
AddSuiteReturn ==
    /\ callStack # <<>>
    /\ nodes[callStack[Len(callStack)]].kind = "suite"
    /\ nodes' = SuiteApplySetupAndTeardown(callStack[Len(callStack)])
    /\ currentPath' = pop(currentPath)
    /\ suites' = Append(suites, callStack[Len(callStack)])
    /\ callStack' = SubSeq(callStack, 1, Len(callStack) - 1)
    /\ UNCHANGED <<managerOptions, benchmarks, files>>

\* addBenchmark
AddBenchmark(name, opts) ==
    /\ Len(nodes) < MaxNodes
    /\ LET id == PathId(name)
           filename == IF currentPath # <<>> THEN nodes[currentPath[1]].name ELSE "name"
           parentOptions == IF currentPath # <<>> THEN nodes[LastOfPath].options
                            ELSE DefaultBenchmarkOptions
           mergedOptions == MergedOptions(parentOptions, opts)
       IN  nodes' = WithNode(NewNode("benchmark", id, name, filename,
                                     BenchmarkConstructor(mergedOptions), opts))
    /\ benchmarks' = Append(benchmarks, Len(nodes) + 1)
    /\ UNCHANGED <<managerOptions, currentPath, callStack, suites, files>>

\* A SuiteManager built with the default options; names vary, no declaration
\* passes options.
InitSuites ==
    /\ managerOptions = ManagerConstructor(DefaultBenchmarkOptions)
    /\ nodes = <<>>
    /\ currentPath = <<>>
    /\ callStack = <<>>
    /\ benchmarks = <<>>
    /\ suites = <<>>
    /\ files = <<>>
    /\ pcRun = "new"
    /\ child = "undefined"
    /\ message = UndefinedMessage
    /\ messageListener = FALSE
    /\ exitListener = FALSE
    /\ startMessages = <<>>
    /\ worker = [state |-> "none", code |-> 0]
    /\ channel = <<>>
    /\ exitPending = FALSE
    /\ outcome = PendingOutcome
    /\ thrown = <<>>
    /\ lastSent = UndefinedMessage
    /\ cpuProfile = [samples |-> <<>>, timeDeltas |-> <<>>]
    /\ reduced = [called |-> FALSE]
    /\ options = [minSamples |-> 1, maxSamples |-> 1, maxTime |-> 0]
    /\ samples = <<>>
    /\ cycles = 0
    /\ pcSamples = "idle"
    /\ result = [count |-> 1, finished |-> FALSE]
    /\ minTime = 0
    /\ fnTime = 1
    /\ tried = {}
    /\ pcCycles = "idle"
    /\ batch = <<>>
    /\ analysis = [done |-> FALSE]
    /\ marginOfError = [called |-> FALSE]
    /\ tScore = [called |-> FALSE]
    /\ pcStart = "idle"
    /\ self = 0
    /\ loopIndex = 0
    /\ invoked = <<>>
    /\ attempts = 0
    /\ stats = [done |-> FALSE]
    /\ maxTries = 1

NextSuites ==
    \/ \E filename \in FileNames :
          AddFilesEnter(filename) /\ UNCHANGED <<samplesVars, cyclesVars, processVars, analyticsVars, startVars, profileVars>>
    \/ AddFilesReturn /\ UNCHANGED <<samplesVars, cyclesVars, processVars, analyticsVars, startVars, profileVars>>
    \/ \E name \in Names :
          AddSuiteEnter(name, EmptyOptions) /\ UNCHANGED <<samplesVars, cyclesVars, processVars, analyticsVars, startVars, profileVars>>
    \/ AddSuiteReturn /\ UNCHANGED <<samplesVars, cyclesVars, processVars, analyticsVars, startVars, profileVars>>
    \/ \E name \in Names :
          AddBenchmark(name, EmptyOptions) /\ UNCHANGED <<samplesVars, cyclesVars, processVars, analyticsVars, startVars, profileVars>>

SpecSuites == InitSuites /\ [][NextSuites]_vars

----------------------------------------------------------------------------
(* Claims about the ids SuiteManager builds *)

NodeIds == 1..Len(nodes)

HasParent(n) == \E p \in NodeIds : \E i \in 1..Len(nodes[p].children) : nodes[p].children[i] = n

\* The suite n was added to with addChild.
Parent(n) == CHOOSE p \in NodeIds : \E i \in 1..Len(nodes[p].children) : nodes[p].children[i] = n

\* The names from the root of n's tree down to n.
RECURSIVE NamesDownTo(_)
NamesDownTo(n) ==
    IF HasParent(n) THEN Append(NamesDownTo(Parent(n)), nodes[n].name)
    ELSE <<nodes[n].name>>

RECURSIVE RootOf(_)
RootOf(n) == IF HasParent(n) THEN RootOf(Parent(n)) ELSE n

\* C5: the id of every suite and benchmark declared in a file is the file
\* name, the names of its enclosing suites from the outermost in, and its own
\* name, joined by ':'.
C5_IdIsJoinedPath ==
    \A n \in NodeIds :
        nodes[RootOf(n)].kind = "file" =>
            nodes[n].id = join(NamesDownTo(n), ":")

\* Suite A holding benchmark b in f.js: the benchmark's id is "f.js:A:b".
C5_Witness ==
    \E n \in NodeIds :
        /\ nodes[n].kind = "benchmark"
        /\ nodes[n].name = "b"
        /\ nodes[n].id = "f.js:A:b"
        /\ HasParent(n)
        /\ nodes[Parent(n)].kind = "suite"
        /\ nodes[Parent(n)].name = "A"
        /\ HasParent(Parent(n))
        /\ nodes[Parent(Parent(n))].kind = "file"
        /\ nodes[Parent(Parent(n))].name = "f.js"

\* The nodes that have no parent, and the children of one parent.
Roots == {n \in NodeIds : ~HasParent(n)}

SiblingsDistinct ==
    /\ \A m, n \in Roots : m # n => nodes[m].name # nodes[n].name
    /\ \A m, n \in NodeIds :
          (m # n /\ HasParent(m) /\ HasParent(n) /\ Parent(m) = Parent(n))
              => nodes[m].name # nodes[n].name

\* C6: when siblings under one parent always have distinct names, no two
\* benchmarks of SuiteManager.benchmarks have the same id.
C6_BenchmarkIdsUnique ==
    SiblingsDistinct =>
        \A i, j \in 1..Len(benchmarks) :
            i # j => nodes[benchmarks[i]].id # nodes[benchmarks[j]].id

----------------------------------------------------------------------------
(* The options SuiteManager resolves *)

\* A SuiteManager built with any of the manager inputs; every declaration may
\* pass options, the names are fixed.
InitOptions ==
    /\ managerOptions \in {ManagerConstructor(o) : o \in ManagerInputs}
    /\ nodes = <<>>
    /\ currentPath = <<>>
    /\ callStack = <<>>
    /\ benchmarks = <<>>
    /\ suites = <<>>
    /\ files = <<>>
    /\ pcRun = "new"
    /\ child = "undefined"
    /\ message = UndefinedMessage
    /\ messageListener = FALSE
    /\ exitListener = FALSE
    /\ startMessages = <<>>
    /\ worker = [state |-> "none", code |-> 0]
    /\ channel = <<>>
    /\ exitPending = FALSE
    /\ outcome = PendingOutcome
    /\ thrown = <<>>
    /\ lastSent = UndefinedMessage
    /\ cpuProfile = [samples |-> <<>>, timeDeltas |-> <<>>]
    /\ reduced = [called |-> FALSE]
    /\ options = [minSamples |-> 1, maxSamples |-> 1, maxTime |-> 0]
    /\ samples = <<>>
    /\ cycles = 0
    /\ pcSamples = "idle"
    /\ result = [count |-> 1, finished |-> FALSE]
    /\ minTime = 0
    /\ fnTime = 1
    /\ tried = {}
    /\ pcCycles = "idle"
    /\ batch = <<>>
    /\ analysis = [done |-> FALSE]
    /\ marginOfError = [called |-> FALSE]
    /\ tScore = [called |-> FALSE]
    /\ pcStart = "idle"
    /\ self = 0
    /\ loopIndex = 0
    /\ invoked = <<>>
    /\ attempts = 0
    /\ stats = [done |-> FALSE]
    /\ maxTries = 1

NextOptions ==
    \/ AddFilesEnter("f.js") /\ UNCHANGED <<samplesVars, cyclesVars, processVars, analyticsVars, startVars, profileVars>>
    \/ AddFilesReturn /\ UNCHANGED <<samplesVars, cyclesVars, processVars, analyticsVars, startVars, profileVars>>
    \/ \E opts \in OptionInputs :
          AddSuiteEnter("A", opts) /\ UNCHANGED <<samplesVars, cyclesVars, processVars, analyticsVars, startVars, profileVars>>
    \/ AddSuiteReturn /\ UNCHANGED <<samplesVars, cyclesVars, processVars, analyticsVars, startVars, profileVars>>
    \/ \E opts \in BenchmarkOptionInputs :
          AddBenchmark("b", opts) /\ UNCHANGED <<samplesVars, cyclesVars, processVars, analyticsVars, startVars, profileVars>>

SpecOptions == InitOptions /\ [][NextOptions]_vars

\* The nodes a declaration with options created.
Declared == {n \in NodeIds : nodes[n].kind \in {"suite", "benchmark"}}

\* C7 as stated: a suite or benchmark that declares an explicit non-null
\* value for a key resolves that key to the declared value, whatever its
\* ancestors resolved.
C7_DeclaredValueWins ==
    \A n \in Declared : \A k \in Keys :
        nodes[n].declared[k].tag = "number" =>
            nodes[n].options[k] = nodes[n].declared[k]

\* C7 amended: the declared value wins, except that a benchmark's declared
\* minSamples below 1 is replaced by the default minSamples.
C7_DeclaredValueWinsButMinSamples ==
    \A n \in Declared : \A k \in Keys :
        nodes[n].declared[k].tag = "number" =>
            IF nodes[n].kind = "benchmark" /\ k = "minSamples"
               /\ nodes[n].declared[k].val < 1
               THEN nodes[n].options[k] = DefaultBenchmarkOptions.minSamples
               ELSE nodes[n].options[k] = nodes[n].declared[k]

\* A benchmark that declares a value for a key its parent suite resolved to
\* another explicit value.
C7_Witness ==
    \E n \in Declared : \E k \in Keys :
        /\ nodes[n].kind = "benchmark"
        /\ nodes[n].declared[k] = Num(4)
        /\ nodes[n].options[k] = Num(4)
        /\ HasParent(n)
        /\ nodes[Parent(n)].kind = "suite"
        /\ nodes[Parent(n)].options[k] = Num(0)

\* C8: a benchmark that declares null for a key, or leaves it absent,
\* resolves the key to the value its parent suite resolved.
C8_NullOrAbsentInherits ==
    \A n \in Declared : \A k \in Keys :
        (/\ nodes[n].kind = "benchmark"
         /\ HasParent(n)
         /\ nodes[n].declared[k] \in {Null, Absent})
            => nodes[n].options[k] = nodes[Parent(n)].options[k]

----------------------------------------------------------------------------
(* BenchmarkProcess and the worker it forks *)

\* What the worker (child.ts) sends before it terminates: a result or an error.
WorkerMessages == {ExitMessage("result", "undefined"), ExitMessage("undefined", "error")}

\* The codes of the "exit" event; -1 stands for the null of a worker ended by
\* a signal.
ExitCodes == {0, 1, -1}

\* if (code === 0)
IsCleanExit(code) == code = 0

\* run(): startProcess() forks the worker and registers the "exit" listener
\* on the local `child`; this.child is not assigned, so setEventHandlers()
\* throws a TypeError on this.child.on(...) and neither the "message"
\* listener nor the StartMessage follows.
Run ==
    /\ pcRun = "new"
    /\ worker' = [state |-> "running", code |-> 0]
    /\ exitListener' = TRUE
    /\ outcome' = PendingOutcome
    /\ IF child = "undefined"
          THEN /\ pcRun' = "threw"
               /\ thrown' = Append(thrown, "run")
               /\ UNCHANGED <<messageListener, startMessages>>
          ELSE /\ pcRun' = "returned"
               /\ messageListener' = TRUE
               /\ startMessages' = Append(startMessages, "StartMessage")
               /\ UNCHANGED thrown
    /\ UNCHANGED <<child, message, channel, exitPending, lastSent>>

\* The worker sends a message over the IPC channel.
WorkerSend(msg) ==
    /\ worker.state = "running"
    /\ Len(channel) < MaxChannel
    /\ channel' = Append(channel, msg)
    /\ lastSent' = msg
    /\ UNCHANGED <<pcRun, child, message, messageListener, exitListener,
                   startMessages, worker, exitPending, outcome, thrown>>

\* The worker terminates; its "exit" event is emitted in the parent.
WorkerExit(code) ==
    /\ worker.state = "running"
    /\ worker' = [state |-> "exited", code |-> code]
    /\ exitPending' = TRUE
    /\ UNCHANGED <<pcRun, child, message, messageListener, exitListener,
                   startMessages, channel, outcome, thrown, lastSent>>

\* The parent sees the next message of the worker:
\* (msg) => { this.message = msg } when the listener is registered.
OnMessage ==
    /\ channel # <<>>
    /\ channel' = Tail(channel)
    /\ message' = IF messageListener THEN Head(channel) ELSE message
    /\ UNCHANGED <<pcRun, child, messageListener, exitListener, startMessages,
                   worker, exitPending, outcome, thrown, lastSent>>

\* The "exit" listener of startProcess:
\* if (code === 0) res(this.message) else err(this.message.error)
OnExit ==
    /\ exitPending
    /\ exitListener
    /\ exitPending' = FALSE
    /\ IF IsCleanExit(worker.code)
          THEN /\ outcome' = [state |-> "resolved", message |-> message,
                              reason |-> "undefined"]
               /\ UNCHANGED thrown
          ELSE IF message.tag = "undefined"
                  THEN /\ thrown' = Append(thrown, "exit")
                       /\ UNCHANGED outcome
                  ELSE /\ outcome' = [state |-> "rejected", message |-> UndefinedMessage,
                                      reason |-> message.error]
                       /\ UNCHANGED thrown
    /\ UNCHANGED <<pcRun, child, message, messageListener, exitListener,
                   startMessages, worker, channel, lastSent>>

\* A BenchmarkProcess after its constructor; the other components are idle.
InitProcess ==
    /\ pcRun = "new"
    /\ child = "undefined"
    /\ message = UndefinedMessage
    /\ messageListener = FALSE
    /\ exitListener = FALSE
    /\ startMessages = <<>>
    /\ worker = [state |-> "none", code |-> 0]
    /\ channel = <<>>
    /\ exitPending = FALSE
    /\ outcome = PendingOutcome
    /\ thrown = <<>>
    /\ lastSent = UndefinedMessage
    /\ cpuProfile = [samples |-> <<>>, timeDeltas |-> <<>>]
    /\ reduced = [called |-> FALSE]
    /\ managerOptions = DefaultBenchmarkOptions
    /\ nodes = <<>>
    /\ currentPath = <<>>
    /\ callStack = <<>>
    /\ benchmarks = <<>>
    /\ suites = <<>>
    /\ files = <<>>
    /\ options = [minSamples |-> 1, maxSamples |-> 1, maxTime |-> 0]
    /\ samples = <<>>
    /\ cycles = 0
    /\ pcSamples = "idle"
    /\ result = [count |-> 1, finished |-> FALSE]
    /\ minTime = 0
    /\ fnTime = 1
    /\ tried = {}
    /\ pcCycles = "idle"
    /\ batch = <<>>
    /\ analysis = [done |-> FALSE]
    /\ marginOfError = [called |-> FALSE]
    /\ tScore = [called |-> FALSE]
    /\ pcStart = "idle"
    /\ self = 0
    /\ loopIndex = 0
    /\ invoked = <<>>
    /\ attempts = 0
    /\ stats = [done |-> FALSE]
    /\ maxTries = 1

NextProcess ==
    \/ Run /\ UNCHANGED <<samplesVars, cyclesVars, suiteVars, analyticsVars, startVars, profileVars>>
    \/ \E msg \in WorkerMessages :
          WorkerSend(msg) /\ UNCHANGED <<samplesVars, cyclesVars, suiteVars, analyticsVars, startVars, profileVars>>
    \/ \E code \in ExitCodes :
          WorkerExit(code) /\ UNCHANGED <<samplesVars, cyclesVars, suiteVars, analyticsVars, startVars, profileVars>>
    \/ OnMessage /\ UNCHANGED <<samplesVars, cyclesVars, suiteVars, analyticsVars, startVars, profileVars>>
    \/ OnExit /\ UNCHANGED <<samplesVars, cyclesVars, suiteVars, analyticsVars, startVars, profileVars>>

SpecProcess == InitProcess /\ [][NextProcess]_vars

----------------------------------------------------------------------------
(* Claims about the worker's exit *)

\* The "exit" event of the worker has been handled.
ExitHandled == worker.state = "exited" /\ ~exitPending

\* C9: when the worker exits with a nonzero code the outcome is rejected,
\* with the buffered ExitMessage's error if a message was received and with a
\* generic error otherwise, and no exception escapes the exit handler.
C9_NonzeroExitRejects ==
    (ExitHandled /\ ~IsCleanExit(worker.code)) =>
        /\ outcome.state = "rejected"
        /\ message.tag = "object" => outcome.reason = message.error
        /\ message.tag = "undefined" => outcome.reason # "undefined"
        /\ \A i \in 1..Len(thrown) : thrown[i] # "exit"

\* C10: when the worker exits with code 0 the outcome resolves with the
\* ExitMessage buffered from the worker, whose result is populated and whose
\* error is not.
C10_CleanExitResolvesResult ==
    (ExitHandled /\ IsCleanExit(worker.code)) =>
        /\ outcome.state = "resolved"
        /\ outcome.message.tag = "object"
        /\ outcome.message.result # "undefined"
        /\ outcome.message.error = "undefined"

----------------------------------------------------------------------------
(* Claims about BenchmarkProcess.run *)

\* C11: once run() has been called, exactly one worker is forked, the
\* "message" listener is registered on it and exactly one StartMessage has
\* been sent to it.
C11_RunForksRegistersSends ==
    pcRun # "new" =>
        /\ worker.state # "none"
        /\ messageListener
        /\ Len(startMessages) = 1

----------------------------------------------------------------------------
(* Analytics: numbers *)

\* A JavaScript number, held exactly as the fraction num/den with den >= 0.
\* 0/0 is NaN and n/0 with n > 0 is Infinity, as the division of the code
\* produces them; rounding errors of the floating point format are not
\* modelled.
Frac(n, d) == [num |-> n, den |-> d]

RECURSIVE GCD(_, _)
GCD(a, b) == IF b = 0 THEN a ELSE GCD(b, a % b)

\* The same number in lowest terms
Reduce(x) ==
    LET g == GCD(IF x.num < 0 THEN -x.num ELSE x.num, x.den)
    IN  IF g = 0 THEN x ELSE Frac(x.num \div g, x.den \div g)

NaN == Frac(0, 0)

IsNaN(x) == x.num = 0 /\ x.den = 0

\* a + b
FAdd(a, b) == Reduce(Frac(a.num * b.den + b.num * a.den, a.den * b.den))

\* a - b
FSub(a, b) == Reduce(Frac(a.num * b.den - b.num * a.den, a.den * b.den))

\* a * b
FMul(a, b) == Reduce(Frac(a.num * b.num, a.den * b.den))

\* a / b
FDiv(a, b) ==
    IF b.num < 0 THEN Reduce(Frac(-(a.num * b.den), a.den * (-b.num)))
                 ELSE Reduce(Frac(a.num * b.den, a.den * b.num))

\* a <= b, a < b and a === b; every comparison with NaN is false
FLe(a, b) == ~IsNaN(a) /\ ~IsNaN(b) /\ a.num * b.den <= b.num * a.den

FLt(a, b) == ~IsNaN(a) /\ ~IsNaN(b) /\ a.num * b.den < b.num * a.den

FEq(a, b) == ~IsNaN(a) /\ ~IsNaN(b) /\ a.num * b.den = b.num * a.den

\* Math.round(x): the nearest integer, halves rounded up
Round(x) == (2 * x.num + x.den) \div (2 * x.den)

IsZero(x) == x.num = 0 /\ x.den > 0

\* A number of the form coef * sqrt(sqrtOf) with coef >= 0, kept exactly;
\* this is the form of every value derived from Math.sqrt here.
\* Math.sqrt(x):
Sqrt(x) == [coef |-> Frac(1, 1), sqrtOf |-> x]

\* root / n and root * t
RootDiv(r, n) == [r EXCEPT !.coef = FDiv(r.coef, n)]

RootMul(r, t) == [r EXCEPT !.coef = FMul(r.coef, t)]

\* The root is NaN: a part of it is, or it is the product of 0 and Infinity
RootIsNaN(r) ==
    \/ IsNaN(r.coef) \/ IsNaN(r.sqrtOf)
    \/ (IsZero(r.coef) /\ r.sqrtOf.den = 0)
    \/ (r.coef.den = 0 /\ IsZero(r.sqrtOf))

RootIsZero(r) == ~RootIsNaN(r) /\ (IsZero(r.coef) \/ IsZero(r.sqrtOf))

\* The square of a root, as a fraction
Squared(r) == FMul(FMul(r.coef, r.coef), r.sqrtOf)

\* a <= b for two roots; roots of the same fraction compare as their
\* coefficients do
RootLe(a, b) ==
    /\ ~RootIsNaN(a) /\ ~RootIsNaN(b)
    /\ IF FEq(a.sqrtOf, b.sqrtOf) /\ a.sqrtOf.den > 0
          THEN IsZero(a.sqrtOf) \/ FLe(a.coef, b.coef)
          ELSE FLe(Squared(a), Squared(b))

\* root <= b for a fraction b
RootLeFrac(r, b) ==
    ~RootIsNaN(r) /\ FLe(Frac(0, 1), b) /\ FLe(Squared(r), FMul(b, b))

\* The df of the last row of the t-table
Infinity == -1

\* a >= b for degrees of freedom
Geq(a, b) == a = Infinity \/ (b # Infinity /\ a >= b)

----------------------------------------------------------------------------
(* Analytics: the statistics *)

\* lodash sum over fractions
RECURSIVE FSum(_)
FSum(s) == IF s = <<>> THEN Frac(0, 1) ELSE FAdd(s[1], FSum(Tail(s)))

\* _.min(samples) and _.max(samples)
getMin(s) == s[CHOOSE i \in 1..Len(s) : \A j \in 1..Len(s) : FLe(s[i], s[j])]

getMax(s) == s[CHOOSE i \in 1..Len(s) : \A j \in 1..Len(s) : FLe(s[j], s[i])]

\* _.mean(samples)
getMean(s) == FDiv(FSum(s), Frac(Len(s), 1))

getMedianBug(s) ==
    LET sorted == SortSeq(s, LAMBDA a, b : FLt(a, b))
        l == Len(sorted)
    IN  IF l % 2 = 0 THEN FAdd(sorted[l \div 2 + 1], sorted[l \div 2])
                     ELSE sorted[(l + 1) \div 2]

\* getMedian: the middle of the sorted samples, the average of the two
\* central ones for an even length (indices are 1-based here)
getMedian(s) ==
    LET sorted == SortSeq(s, LAMBDA a, b : FLt(a, b))
        l == Len(sorted)
    IN  IF l % 2 = 0
           THEN FDiv(FAdd(sorted[l \div 2 + 1], sorted[l \div 2]), Frac(2, 1))
           ELSE sorted[(l + 1) \div 2]

getModeBug(s) ==
    LET count(v) == Cardinality({i \in 1..Len(s) : FEq(s[i], v)})
        most == {i \in 1..Len(s) : \A j \in 1..Len(s) : count(s[j]) <= count(s[i])}
    IN  s[CHOOSE i \in most : \A j \in most : FLe(s[i], s[j])]

\* getMode: round the samples, group them by value, take the value of the
\* largest group; the groups of an object keyed by non-negative integers are
\* visited in ascending order, so the smallest of the most frequent values
\* wins.
getMode(s) ==
    LET rounded == [i \in 1..Len(s) |-> Round(s[i])]
        keys == {rounded[i] : i \in 1..Len(s)}
        length(k) == Cardinality({i \in 1..Len(s) : rounded[i] = k})
        most == {k \in keys : \A o \in keys : length(o) <= length(k)}
    IN  Frac(CHOOSE k \in most : \A o \in most : k <= o, 1)

\* getStandardDeviation: sqrt(sumBy((s - mean) ** 2) / (length - 1))
getStandardDeviation(s) ==
    LET mean == getMean(s)
        squared == [i \in 1..Len(s) |-> FMul(FSub(s[i], mean), FSub(s[i], mean))]
    IN  Sqrt(FDiv(FSum(squared), Frac(Len(s) - 1, 1)))

\* getStandardError: standardDeviation / length
getStandardError(s) == RootDiv(getStandardDeviation(s), Frac(Len(s), 1))

\* const confidenceLevels, in tenths of a percent
confidenceLevels == <<0, 500, 600, 700, 800, 900, 950, 980, 990, 998, 999>>

\* confidenceLevels.indexOf(confidence), 1-based; 0 stands for the -1 of a
\* value that is not in the array
indexOf(levels, c) ==
    IF \E i \in 1..Len(levels) : levels[i] = c
       THEN CHOOSE i \in 1..Len(levels) : levels[i] = c
       ELSE 0

\* Analytics.tTable; the t-values are in thousandths
tTable == <<
    [df |-> 1, tValues |-> <<0, 1000, 1376, 1963, 3078, 6314, 12710, 31820, 63660, 318310, 636620>>],
    [df |-> 2, tValues |-> <<0, 816, 1061, 1386, 1886, 2920, 4303, 6965, 9925, 22327, 31599>>],
    [df |-> 3, tValues |-> <<0, 765, 978, 1250, 1638, 2353, 3182, 4541, 5841, 10215, 12924>>],
    [df |-> 4, tValues |-> <<0, 741, 941, 1190, 1533, 2132, 2776, 3747, 4604, 7173, 8610>>],
    [df |-> 5, tValues |-> <<0, 727, 920, 1156, 1476, 2015, 2571, 3365, 4032, 5893, 6869>>],
    [df |-> 6, tValues |-> <<0, 718, 906, 1134, 1440, 1943, 2447, 3143, 3707, 5208, 5959>>],
    [df |-> 7, tValues |-> <<0, 711, 896, 1119, 1415, 1895, 2365, 2998, 3499, 4785, 5408>>],
    [df |-> 8, tValues |-> <<0, 706, 889, 1108, 1397, 1860, 2306, 2896, 3355, 4501, 5041>>],
    [df |-> 9, tValues |-> <<0, 703, 883, 1100, 1383, 1833, 2262, 2821, 3250, 4297, 4781>>],
    [df |-> 10, tValues |-> <<0, 700, 879, 1093, 1372, 1812, 2228, 2764, 3169, 4144, 4587>>],
    [df |-> 11, tValues |-> <<0, 697, 876, 1088, 1363, 1796, 2201, 2718, 3106, 4025, 4437>>],
    [df |-> 12, tValues |-> <<0, 695, 873, 1083, 1356, 1782, 2179, 2681, 3055, 3930, 4318>>],
    [df |-> 13, tValues |-> <<0, 694, 870, 1079, 1350, 1771, 2160, 2650, 3012, 3852, 4221>>],
    [df |-> 14, tValues |-> <<0, 692, 868, 1076, 1345, 1761, 2145, 2624, 2977, 3787, 4140>>],
    [df |-> 15, tValues |-> <<0, 691, 866, 1074, 1341, 1753, 2131, 2602, 2947, 3733, 4073>>],
    [df |-> 16, tValues |-> <<0, 690, 865, 1071, 1337, 1746, 2120, 2583, 2921, 3686, 4015>>],
    [df |-> 17, tValues |-> <<0, 689, 863, 1069, 1333, 1740, 2110, 2567, 2898, 3646, 3965>>],
    [df |-> 18, tValues |-> <<0, 688, 862, 1067, 1330, 1734, 2101, 2552, 2878, 3610, 3922>>],
    [df |-> 19, tValues |-> <<0, 688, 861, 1066, 1328, 1729, 2093, 2539, 2861, 3579, 3883>>],
    [df |-> 20, tValues |-> <<0, 687, 860, 1064, 1325, 1725, 2086, 2528, 2845, 3552, 3850>>],
    [df |-> 21, tValues |-> <<0, 686, 859, 1063, 1323, 1721, 2080, 2518, 2831, 3527, 3819>>],
    [df |-> 22, tValues |-> <<0, 686, 858, 1061, 1321, 1717, 2074, 2508, 2819, 3505, 3792>>],
    [df |-> 23, tValues |-> <<0, 685, 858, 1060, 1319, 1714, 2069, 2500, 2807, 3485, 3768>>],
    [df |-> 24, tValues |-> <<0, 685, 857, 1059, 1318, 1711, 2064, 2492, 2797, 3467, 3745>>],
    [df |-> 25, tValues |-> <<0, 684, 856, 1058, 1316, 1708, 2060, 2485, 2787, 3450, 3725>>],
    [df |-> 26, tValues |-> <<0, 684, 856, 1058, 1315, 1706, 2056, 2479, 2779, 3435, 3707>>],
    [df |-> 27, tValues |-> <<0, 684, 855, 1057, 1314, 1703, 2052, 2473, 2771, 3421, 3690>>],
    [df |-> 28, tValues |-> <<0, 683, 855, 1056, 1313, 1701, 2048, 2467, 2763, 3408, 3674>>],
    [df |-> 29, tValues |-> <<0, 683, 854, 1055, 1311, 1699, 2045, 2462, 2756, 3396, 3659>>],
    [df |-> 30, tValues |-> <<0, 683, 854, 1055, 1310, 1697, 2042, 2457, 2750, 3385, 3646>>],
    [df |-> 40, tValues |-> <<0, 681, 851, 1050, 1303, 1684, 2021, 2423, 2704, 3307, 3551>>],
    [df |-> 60, tValues |-> <<0, 679, 848, 1045, 1296, 1671, 2000, 2390, 2660, 3232, 3460>>],
    [df |-> 80, tValues |-> <<0, 678, 846, 1043, 1292, 1664, 1990, 2374, 2639, 3195, 3416>>],
    [df |-> 100, tValues |-> <<0, 677, 845, 1042, 1290, 1660, 1984, 2364, 2626, 3174, 3390>>],
    [df |-> 1000, tValues |-> <<0, 675, 842, 1037, 1282, 1646, 1962, 2330, 2581, 3098, 3300>>],
    [df |-> Infinity, tValues |-> <<0, 674, 842, 1036, 1282, 1645, 1960, 2326, 2576, 3090, 3291>>]
>>

\* tTable[i].tValues[confidenceIndex]; the undefined of index -1 becomes NaN
\* in the product of getMarginOfError
tValue(i, confidenceIndex) ==
    IF confidenceIndex = 0 THEN NaN
    ELSE Reduce(Frac(tTable[i].tValues[confidenceIndex], 1000))

\* getTScore: the t-value of the first row whose df is at least length - 1,
\* looking at the rows 0 .. tTable.length - 2; 0 when none of them fits
getTScore(s, confidence) ==
    LET confidenceIndex == indexOf(confidenceLevels, confidence)
        df == Len(s) - 1
        l == Len(tTable) - 1
        fits == {i \in 1..l : Geq(tTable[i].df, df)}
    IN  IF fits = {} THEN Frac(0, 1)
        ELSE tValue(CHOOSE i \in fits : \A j \in fits : i <= j, confidenceIndex)

getMarginOfErrorBug(s, confidence) ==
    RootDiv(getStandardError(s), getTScore(s, confidence))

\* getMarginOfError: standardError * tScore
getMarginOfError(s, confidence) ==
    RootMul(getStandardError(s), getTScore(s, confidence))

\* getFullAnalysis, with the default confidence of 99 for the margin of error
getFullAnalysis(s) ==
    [done |-> TRUE,
     min |-> getMin(s),
     max |-> getMax(s),
     marginOfError |-> getMarginOfError(s, 990),
     standardDeviation |-> getStandardDeviation(s),
     standardError |-> getStandardError(s),
     mean |-> getMean(s),
     mode |-> getMode(s),
     median |-> getMedian(s)]

----------------------------------------------------------------------------
(* Analytics: calls on a batch of samples *)

\* The samples of a batch: multiples of a half
SampleValues == {Reduce(Frac(k, 2)) : k \in 0..MaxSampleHalves}

Batches == UNION {[1..n -> SampleValues] : n \in 1..MaxBatch}

\* type ConfidenceLevel
ConfidenceLevel == {confidenceLevels[i] : i \in 1..Len(confidenceLevels)}

\* Analytics.getFullAnalysis(samples)
GetFullAnalysis ==
    /\ batch # <<>>
    /\ analysis' = getFullAnalysis(batch)
    /\ UNCHANGED <<batch, marginOfError, tScore>>

\* Analytics.getMarginOfError(samples, confidence)
GetMarginOfError(confidence) ==
    /\ batch # <<>>
    /\ marginOfError' = [called |-> TRUE, confidence |-> confidence,
                         value |-> getMarginOfError(batch, confidence)]
    /\ UNCHANGED <<batch, analysis, tScore>>

\* Analytics.getTScore(samples, confidence)
GetTScore(confidence) ==
    /\ batch # <<>>
    /\ tScore' = [called |-> TRUE, confidence |-> confidence,
                  value |-> getTScore(batch, confidence)]
    /\ UNCHANGED <<batch, analysis, marginOfError>>

\* Any non-empty batch; the other components are idle.
InitAnalytics ==
    /\ batch \in Batches
    /\ analysis = [done |-> FALSE]
    /\ marginOfError = [called |-> FALSE]
    /\ tScore = [called |-> FALSE]
    /\ pcRun = "new"
    /\ child = "undefined"
    /\ message = UndefinedMessage
    /\ messageListener = FALSE
    /\ exitListener = FALSE
    /\ startMessages = <<>>
    /\ worker = [state |-> "none", code |-> 0]
    /\ channel = <<>>
    /\ exitPending = FALSE
    /\ outcome = PendingOutcome
    /\ thrown = <<>>
    /\ lastSent = UndefinedMessage
    /\ cpuProfile = [samples |-> <<>>, timeDeltas |-> <<>>]
    /\ reduced = [called |-> FALSE]
    /\ managerOptions = DefaultBenchmarkOptions
    /\ nodes = <<>>
    /\ currentPath = <<>>
    /\ callStack = <<>>
    /\ benchmarks = <<>>
    /\ suites = <<>>
    /\ files = <<>>
    /\ options = [minSamples |-> 1, maxSamples |-> 1, maxTime |-> 0]
    /\ samples = <<>>
    /\ cycles = 0
    /\ pcSamples = "idle"
    /\ result = [count |-> 1, finished |-> FALSE]
    /\ minTime = 0
    /\ fnTime = 1
    /\ tried = {}
    /\ pcCycles = "idle"
    /\ pcStart = "idle"
    /\ self = 0
    /\ loopIndex = 0
    /\ invoked = <<>>
    /\ attempts = 0
    /\ stats = [done |-> FALSE]
    /\ maxTries = 1

NextAnalytics ==
    \/ GetFullAnalysis /\ UNCHANGED <<samplesVars, cyclesVars, suiteVars, processVars, startVars, profileVars>>
    \/ \E confidence \in ConfidenceLevel :
          GetMarginOfError(confidence)
              /\ UNCHANGED <<samplesVars, cyclesVars, suiteVars, processVars, startVars, profileVars>>

SpecAnalytics == InitAnalytics /\ [][NextAnalytics]_vars

----------------------------------------------------------------------------
(* Claims about the statistics *)

AllEqual(v) == \A i \in 1..Len(batch) : FEq(batch[i], v)

RaisedConfidence ==
    /\ marginOfError.called
    /\ marginOfError'.called
    /\ marginOfError' # marginOfError
    /\ marginOfError.confidence <= marginOfError'.confidence

\* C14 as stated: for a batch of any size and enumerated confidence levels
\* c1 <= c2, the margin of error at c1 is at most the margin of error at c2.
C14_MarginGrowsWithConfidence ==
    [][RaisedConfidence => RootLe(marginOfError.value, marginOfError'.value)]_vars

\* C14 amended: the same for a batch of at least 2 samples; with one sample
\* both margins are NaN, which compares false.
C14_MarginGrowsWithConfidenceFromTwo ==
    [][(RaisedConfidence /\ Len(batch) >= 2)
          => RootLe(marginOfError.value, marginOfError'.value)]_vars

\* A margin of error above 0, computed for a batch of several samples at a
\* confidence level above 0.
C14_Witness ==
    /\ marginOfError.called
    /\ Len(batch) >= 2
    /\ marginOfError.confidence > 0
    /\ ~RootIsNaN(marginOfError.value)
    /\ ~RootIsZero(marginOfError.value)

----------------------------------------------------------------------------
(* Claims about the options of suites *)

\* The suites declared with addSuite.
DeclaredSuites == {n \in NodeIds : nodes[n].kind = "suite"}

\* C15: the options of a suite declared outside every other suite are the
\* default options overridden by the options of its declaration, and the
\* options of a nested suite are its parent's options overridden by the
\* options of its declaration.
C15_SuiteOptionsAreMerged ==
    \A n \in DeclaredSuites :
        nodes[n].options =
            IF HasParent(n)
               THEN merge(merge(EmptyOptions, nodes[Parent(n)].options), nodes[n].declared)
               ELSE merge(merge(EmptyOptions, DefaultBenchmarkOptions), nodes[n].declared)

\* A root suite that declares a value for one key, and a suite nested in it
\* that declares a value for another key and inherits the first.
C15_Witness ==
    \E n, m \in DeclaredSuites : \E k, j \in Keys :
        /\ ~HasParent(n)
        /\ nodes[n].declared[k] = Num(0)
        /\ nodes[n].options[k] = Num(0)
        /\ HasParent(m) /\ Parent(m) = n
        /\ j # k
        /\ nodes[m].declared[j] = Num(4)
        /\ nodes[m].declared[k] = Absent
        /\ nodes[m].options[j] = Num(4)
        /\ nodes[m].options[k] = Num(0)

----------------------------------------------------------------------------
(* Setups: their registration and the setup loop of Benchmark.start *)

\* SuiteManager.addSetup(fn): _.last(this.currentPath).addSetup(fn) on a
\* non-empty path, nothing otherwise. The function is named by the suite it
\* is registered on and its position there.
AddSetup ==
    /\ currentPath # <<>>
    /\ Len(nodes[LastOfPath].setups) < MaxSetups
    /\ nodes' = [nodes EXCEPT ![LastOfPath].setups =
                    Append(@, [kind |-> "setup", owner |-> LastOfPath, nr |-> Len(@) + 1])]
    /\ UNCHANGED <<managerOptions, currentPath, callStack, benchmarks, suites, files>>

LoopContinuesBug(index, l) == index < l - 1

\* The test `i < l` of the setup loop and of the teardown loop
LoopContinues(index, l) == index < l

\* start() is called on benchmark b, after the declarations have run
StartEnter(b) ==
    /\ pcStart = "idle"
    /\ callStack = <<>>
    /\ b \in 1..Len(nodes)
    /\ nodes[b].kind = "benchmark"
    /\ pcStart' = "setups"
    /\ self' = b
    /\ loopIndex' = 0
    /\ UNCHANGED <<invoked, attempts, stats, maxTries>>

\* for (let i = 0, l = this.setups.length; i < l; i++) this.setups[i]()
StartSetup ==
    /\ pcStart = "setups"
    /\ LoopContinues(loopIndex, Len(nodes[self].setups))
    /\ invoked' = Append(invoked, nodes[self].setups[loopIndex + 1])
    /\ loopIndex' = loopIndex + 1
    /\ UNCHANGED <<pcStart, self, attempts, stats, maxTries>>

\* A SuiteManager built with the default options, and no benchmark started.
InitSetups ==
    /\ managerOptions = ManagerConstructor(DefaultBenchmarkOptions)
    /\ nodes = <<>>
    /\ currentPath = <<>>
    /\ callStack = <<>>
    /\ benchmarks = <<>>
    /\ suites = <<>>
    /\ files = <<>>
    /\ pcStart = "idle"
    /\ self = 0
    /\ loopIndex = 0
    /\ invoked = <<>>
    /\ attempts = 0
    /\ stats = [done |-> FALSE]
    /\ maxTries = 1
    /\ batch = <<>>
    /\ analysis = [done |-> FALSE]
    /\ marginOfError = [called |-> FALSE]
    /\ tScore = [called |-> FALSE]
    /\ pcRun = "new"
    /\ child = "undefined"
    /\ message = UndefinedMessage
    /\ messageListener = FALSE
    /\ exitListener = FALSE
    /\ startMessages = <<>>
    /\ worker = [state |-> "none", code |-> 0]
    /\ channel = <<>>
    /\ exitPending = FALSE
    /\ outcome = PendingOutcome
    /\ thrown = <<>>
    /\ lastSent = UndefinedMessage
    /\ cpuProfile = [samples |-> <<>>, timeDeltas |-> <<>>]
    /\ reduced = [called |-> FALSE]
    /\ options = [minSamples |-> 1, maxSamples |-> 1, maxTime |-> 0]
    /\ samples = <<>>
    /\ cycles = 0
    /\ pcSamples = "idle"
    /\ result = [count |-> 1, finished |-> FALSE]
    /\ minTime = 0
    /\ fnTime = 1
    /\ tried = {}
    /\ pcCycles = "idle"

\* The declarations run first; start() runs on its own afterwards and is
\* followed here to the end of its setup loop (SpecStart follows all of it).
NextSetups ==
    \/ pcStart = "idle" /\ AddFilesEnter("f.js")
          /\ UNCHANGED <<samplesVars, cyclesVars, processVars, analyticsVars, startVars, profileVars>>
    \/ pcStart = "idle" /\ AddFilesReturn
          /\ UNCHANGED <<samplesVars, cyclesVars, processVars, analyticsVars, startVars, profileVars>>
    \/ pcStart = "idle" /\ AddSuiteEnter("A", EmptyOptions)
          /\ UNCHANGED <<samplesVars, cyclesVars, processVars, analyticsVars, startVars, profileVars>>
    \/ pcStart = "idle" /\ AddSuiteReturn
          /\ UNCHANGED <<samplesVars, cyclesVars, processVars, analyticsVars, startVars, profileVars>>
    \/ pcStart = "idle" /\ AddBenchmark("b", EmptyOptions)
          /\ UNCHANGED <<samplesVars, cyclesVars, processVars, analyticsVars, startVars, profileVars>>
    \/ pcStart = "idle" /\ AddSetup
          /\ UNCHANGED <<samplesVars, cyclesVars, processVars, analyticsVars, startVars, profileVars>>
    \/ \E b \in 1..MaxNodes :
          StartEnter(b)
              /\ UNCHANGED <<samplesVars, cyclesVars, suiteVars, processVars, analyticsVars, profileVars>>
    \/ StartSetup
          /\ UNCHANGED <<samplesVars, cyclesVars, suiteVars, processVars, analyticsVars, profileVars>>

SpecSetups == InitSetups /\ [][NextSetups]_vars

----------------------------------------------------------------------------
(* Claims about the order of the setups *)

\* C17: start() invokes the setups of its benchmark in the order of the
\* array, and every setup registered on a suite is invoked before every
\* setup registered on a suite nested inside that suite.
C17_SetupsRunOuterFirst ==
    /\ pcStart = "setups" => invoked = SubSeq(nodes[self].setups, 1, loopIndex)
    /\ \A p, q \in 1..Len(invoked) :
          invoked[q].owner \in Descendants(invoked[p].owner) => p < q

\* start() has invoked all setups of a benchmark, among them one of an outer
\* suite and one of a suite nested inside it.
C17_Witness ==
    /\ pcStart = "setups"
    /\ loopIndex = Len(nodes[self].setups)
    /\ \E p, q \in 1..Len(invoked) :
          invoked[q].owner \in Descendants(invoked[p].owner)

----------------------------------------------------------------------------
(* Benchmark.start *)

reduceUncertaintyBug(smallestMeasure, fractionOfUncertainty) ==
    (smallestMeasure * fractionOfUncertainty.den) \div fractionOfUncertainty.num

\* Analytics.reduceUncertainty(smallestMeasure, fractionOfUncertainty):
\* (smallestMeasure / 2) / fractionOfUncertainty, for a fraction such as
\* 1/100 that makes the result a whole number
reduceUncertainty(smallestMeasure, fractionOfUncertainty) ==
    (smallestMeasure * fractionOfUncertainty.den) \div (2 * fractionOfUncertainty.num)

\* Timer.getResolution(): the tiniest possible measurement
TimerResolutions == 1..MaxResolution

\* The options a benchmark is constructed with in the runs of start()
StartOptionInputs ==
    {EmptyOptions, [EmptyOptions EXCEPT !.maxSamples = Num(2)],
     [EmptyOptions EXCEPT !.minTime = Num(60)]}

\* Benchmark.addSetup(fn) on benchmark b
BenchmarkAddSetup(b) ==
    /\ b \in 1..Len(nodes)
    /\ nodes[b].kind = "benchmark"
    /\ Len(nodes[b].setups) < MaxSetups
    /\ nodes' = [nodes EXCEPT ![b].setups =
                    Append(@, [kind |-> "setup", owner |-> b, nr |-> Len(@) + 1])]
    /\ UNCHANGED <<managerOptions, currentPath, callStack, benchmarks, suites, files>>

\* Benchmark.addTeardown(fn) on benchmark b
BenchmarkAddTeardown(b) ==
    /\ b \in 1..Len(nodes)
    /\ nodes[b].kind = "benchmark"
    /\ Len(nodes[b].teardowns) < MaxSetups
    /\ nodes' = [nodes EXCEPT ![b].teardowns =
                    addTeardown(@, <<[kind |-> "teardown", owner |-> b, nr |-> Len(@) + 1]>>)]
    /\ UNCHANGED <<managerOptions, currentPath, callStack, benchmarks, suites, files>>

\* After the setup loop: timerResolution = Timer.getResolution();
\* minTime = Math.max(Analytics.reduceUncertainty(timerResolution, 0.01),
\* this.options.minTime); then this.getMaxCycles(minTime) is called.
StartCalibrate(timerResolution) ==
    /\ pcStart = "setups"
    /\ ~LoopContinues(loopIndex, Len(nodes[self].setups))
    /\ minTime' = Max(reduceUncertainty(timerResolution, Frac(1, 100)), options.minTime)
    /\ pcStart' = "calibrate"
    /\ attempts' = attempts + 1
    /\ UNCHANGED <<result, fnTime, tried, pcCycles, self, loopIndex, invoked, stats, maxTries>>

\* getMaxCycles returned optimalCount; this.getSamples(optimalCount) is called
StartSample ==
    /\ pcStart = "calibrate"
    /\ pcCycles = "done"
    /\ pcStart' = "sample"
    /\ UNCHANGED <<self, loopIndex, invoked, attempts, stats, maxTries>>

\* samples.map(sample => sample / optimalCount)
times == [k \in 1..Len(samples) |-> Reduce(Frac(samples[k], result.count))]

\* getSamples returned: stats = Analytics.getFullAnalysis(samples), and the
\* teardown loop begins
StartAnalyse ==
    /\ pcStart = "sample"
    /\ pcSamples = "done"
    /\ stats' = getFullAnalysis(times)
    /\ pcStart' = "teardowns"
    /\ loopIndex' = 0
    /\ UNCHANGED <<self, invoked, attempts, maxTries>>

\* for (let i = 0, l = this.teardowns.length; i < l; i++) this.teardowns[i]()
StartTeardown ==
    /\ pcStart = "teardowns"
    /\ LoopContinues(loopIndex, Len(nodes[self].teardowns))
    /\ invoked' = Append(invoked, nodes[self].teardowns[loopIndex + 1])
    /\ loopIndex' = loopIndex + 1
    /\ UNCHANGED <<pcStart, self, attempts, stats, maxTries>>

\* return { id, name, filename, stats, count, times, options }
StartReturn ==
    /\ pcStart = "teardowns"
    /\ ~LoopContinues(loopIndex, Len(nodes[self].teardowns))
    /\ pcStart' = "returned"
    /\ UNCHANGED <<self, loopIndex, invoked, attempts, stats, maxTries>>

\* A benchmark constructed with `new Benchmark(id, name, fn, filepath,
\* options)`, not yet started; options holds its resolved options as plain
\* numbers, fnTime the speed of its function, maxTries the maxTries it was
\* configured with.
InitStart ==
    /\ \E opts \in StartOptionInputs :
          /\ nodes = <<NewNode("benchmark", "b", "b", "f.js", BenchmarkConstructor(opts), opts)>>
          /\ options = [k \in Keys |-> BenchmarkConstructor(opts)[k].val]
    /\ maxTries \in 1..MaxTries
    /\ fnTime \in 1..MaxFnTime
    /\ pcStart = "idle"
    /\ self = 0
    /\ loopIndex = 0
    /\ invoked = <<>>
    /\ attempts = 0
    /\ stats = [done |-> FALSE]
    /\ samples = <<>>
    /\ cycles = 0
    /\ pcSamples = "idle"
    /\ result = [count |-> 1, finished |-> FALSE]
    /\ minTime = 0
    /\ tried = {}
    /\ pcCycles = "idle"
    /\ managerOptions = DefaultBenchmarkOptions
    /\ currentPath = <<>>
    /\ callStack = <<>>
    /\ benchmarks = <<>>
    /\ suites = <<>>
    /\ files = <<>>
    /\ batch = <<>>
    /\ analysis = [done |-> FALSE]
    /\ marginOfError = [called |-> FALSE]
    /\ tScore = [called |-> FALSE]
    /\ pcRun = "new"
    /\ child = "undefined"
    /\ message = UndefinedMessage
    /\ messageListener = FALSE
    /\ exitListener = FALSE
    /\ startMessages = <<>>
    /\ worker = [state |-> "none", code |-> 0]
    /\ channel = <<>>
    /\ exitPending = FALSE
    /\ outcome = PendingOutcome
    /\ thrown = <<>>
    /\ lastSent = UndefinedMessage
    /\ cpuProfile = [samples |-> <<>>, timeDeltas |-> <<>>]
    /\ reduced = [called |-> FALSE]

\* Setups and teardowns are added before start(); start() then runs alone.
NextStart ==
    \/ pcStart = "idle" /\ BenchmarkAddSetup(1)
          /\ UNCHANGED <<samplesVars, cyclesVars, processVars, analyticsVars, startVars, profileVars>>
    \/ pcStart = "idle" /\ BenchmarkAddTeardown(1)
          /\ UNCHANGED <<samplesVars, cyclesVars, processVars, analyticsVars, startVars, profileVars>>
    \/ StartEnter(1)
          /\ UNCHANGED <<samplesVars, cyclesVars, suiteVars, processVars, analyticsVars, profileVars>>
    \/ StartSetup
          /\ UNCHANGED <<samplesVars, cyclesVars, suiteVars, processVars, analyticsVars, profileVars>>
    \/ \E timerResolution \in TimerResolutions :
          StartCalibrate(timerResolution)
              /\ UNCHANGED <<samplesVars, suiteVars, processVars, analyticsVars, profileVars>>
    \/ pcStart = "calibrate" /\ GetMaxCyclesEnter
    \/ pcStart = "calibrate" /\ GetMaxCyclesLoop
    \/ pcStart = "calibrate" /\ GetMaxCyclesReturn
    \/ StartSample
          /\ UNCHANGED <<samplesVars, cyclesVars, suiteVars, processVars, analyticsVars, profileVars>>
    \/ pcStart = "sample" /\ GetSamplesEnter
    \/ pcStart = "sample" /\ GetSamplesMinLoop
    \/ pcStart = "sample" /\ GetSamplesMoreLoop
    \/ StartAnalyse
          /\ UNCHANGED <<samplesVars, cyclesVars, suiteVars, processVars, analyticsVars, profileVars>>
    \/ StartTeardown
          /\ UNCHANGED <<samplesVars, cyclesVars, suiteVars, processVars, analyticsVars, profileVars>>
    \/ StartReturn
          /\ UNCHANGED <<samplesVars, cyclesVars, suiteVars, processVars, analyticsVars, profileVars>>

SpecStart == InitStart /\ [][NextStart]_vars

----------------------------------------------------------------------------
(* Claims about the attempts of Benchmark.start *)

\* |median - mean| <= mean * 0.1, the second part of the acceptance check
LowSkew ==
    LET difference == FSub(stats.median, stats.mean)
        tenth == FMul(stats.mean, Frac(1, 10))
    IN  FLe(difference, tenth) /\ FLe(FSub(Frac(0, 1), difference), tenth)

\* C16: start() makes at most maxTries attempts, and it returns after fewer
\* than maxTries attempts only with statistics that pass the acceptance
\* check (of which |median - mean| <= 10% of the mean is one part): a
\* rejected attempt is followed by another one.
C16_RejectedAttemptIsRetried ==
    pcStart = "returned" =>
        /\ attempts <= maxTries
        /\ attempts < maxTries => LowSkew

----------------------------------------------------------------------------
(* Claims about the passes of getMaxCycles *)

\* C18: calibration terminates for a function with a constant positive time
\* per call and a positive minTime. cycle() is a function of the count here,
\* so the loop ends only if no pass hands back the result it was given.
C18_EveryPassProgresses ==
    (pcCycles = "loop" /\ fnTime > 0 /\ minTime > 0 /\ result.finished = FALSE)
        => cycle(result.count, minTime) # result

\* One pass of the loop of getMaxCycles that did not finish
UnfinishedPass ==
    /\ pcCycles = "loop"
    /\ pcCycles' = "loop"
    /\ result'.finished = FALSE

\* increase is Math.ceil((minTime - time) / (time / count)): the least whole
\* number of periods that covers the time left
IsCeilOfTimeLeft(increase, count, time) ==
    /\ increase * time >= (minTime - time) * count
    /\ (increase - 1) * time < (minTime - time) * count

\* C19 as stated: after a pass whose batch time is <= 0 the next count is
\* count * 100; after a pass with 0 < time <= minTime it is
\* count + ceil((minTime - time) / (time / count)).
C19_NextCountTimes100 ==
    [][UnfinishedPass =>
          LET count == result.count
              time == execute(count)
          IN  /\ time <= 0 => result'.count = count * 100
              /\ (0 < time /\ time <= minTime) =>
                    IsCeilOfTimeLeft(result'.count - count, count, time)]_vars

\* C19 amended: after a pass whose batch time is <= 0 the next count is
\* count + count * 100; after a pass with 0 < time <= minTime it is
\* count + ceil((minTime - time) / (time / count)).
C19_NextCountPlusTimes100 ==
    [][UnfinishedPass =>
          LET count == result.count
              time == execute(count)
          IN  /\ time <= 0 => result'.count = count + count * 100
              /\ (0 < time /\ time <= minTime) =>
                    IsCeilOfTimeLeft(result'.count - count, count, time)]_vars

\* Calibration of a function that takes no measurable time, after the first
\* pass has measured a batch time of 0 for count 1.
C19_Witness ==
    /\ pcCycles = "loop"
    /\ fnTime = 0
    /\ <<1, 0>> \in tried
    /\ result.count > 1

----------------------------------------------------------------------------
(* Analytics.getTScore on batches of every length up to MaxLongBatch *)

\* The batches differ in length only: getTScore reads samples.length alone.
LongBatches == {[k \in 1..n |-> Frac(0, 1)] : n \in 1..MaxLongBatch}

InitTScore ==
    /\ batch \in LongBatches
    /\ analysis = [done |-> FALSE]
    /\ marginOfError = [called |-> FALSE]
    /\ tScore = [called |-> FALSE]
    /\ pcStart = "idle"
    /\ self = 0
    /\ loopIndex = 0
    /\ invoked = <<>>
    /\ attempts = 0
    /\ stats = [done |-> FALSE]
    /\ maxTries = 1
    /\ pcRun = "new"
    /\ child = "undefined"
    /\ message = UndefinedMessage
    /\ messageListener = FALSE
    /\ exitListener = FALSE
    /\ startMessages = <<>>
    /\ worker = [state |-> "none", code |-> 0]
    /\ channel = <<>>
    /\ exitPending = FALSE
    /\ outcome = PendingOutcome
    /\ thrown = <<>>
    /\ lastSent = UndefinedMessage
    /\ cpuProfile = [samples |-> <<>>, timeDeltas |-> <<>>]
    /\ reduced = [called |-> FALSE]
    /\ managerOptions = DefaultBenchmarkOptions
    /\ nodes = <<>>
    /\ currentPath = <<>>
    /\ callStack = <<>>
    /\ benchmarks = <<>>
    /\ suites = <<>>
    /\ files = <<>>
    /\ options = [minSamples |-> 1, maxSamples |-> 1, maxTime |-> 0]
    /\ samples = <<>>
    /\ cycles = 0
    /\ pcSamples = "idle"
    /\ result = [count |-> 1, finished |-> FALSE]
    /\ minTime = 0
    /\ fnTime = 1
    /\ tried = {}
    /\ pcCycles = "idle"

NextTScore ==
    \E confidence \in ConfidenceLevel :
        GetTScore(confidence)
            /\ UNCHANGED <<samplesVars, cyclesVars, suiteVars, processVars, startVars, profileVars>>

SpecTScore == InitTScore /\ [][NextTScore]_vars

\* C20: for a batch of n >= 2 samples the t-score is the t-value of the
\* first row of the t-table whose df is at least n - 1, the df = Infinity
\* row included, and so it is not 0 for a confidence level above 0.
C20_TScoreFromFirstFittingRow ==
    (tScore.called /\ Len(batch) >= 2) =>
        LET df == Len(batch) - 1
            fits == {r \in 1..Len(tTable) : Geq(tTable[r].df, df)}
            first == CHOOSE r \in fits : \A o \in fits : r <= o
        IN  /\ FEq(tScore.value, tValue(first, indexOf(confidenceLevels, tScore.confidence)))
            /\ tScore.confidence > 0 => ~IsZero(tScore.value)

----------------------------------------------------------------------------
(* Analytics.getMarginOfError with any number as the confidence level *)

\* Confidence levels, in tenths of a percent, that are not in the type
\* ConfidenceLevel; the type is not checked when the program runs.
OtherConfidences == {-10, 420, 995, 1000}

NextAnyConfidence ==
    \E confidence \in ConfidenceLevel \cup OtherConfidences :
        GetMarginOfError(confidence)
            /\ UNCHANGED <<samplesVars, cyclesVars, suiteVars, processVars, startVars, profileVars>>

SpecAnyConfidence == InitAnalytics /\ [][NextAnyConfidence]_vars

\* C21: a call of getMarginOfError with a confidence level that is not
\* enumerated is rejected or answered for an enumerated level, so the margin
\* it returns for a batch of at least 2 samples is a number.
C21_MarginIsANumber ==
    (/\ marginOfError.called
     /\ marginOfError.confidence \notin ConfidenceLevel
     /\ Len(batch) >= 2)
        => ~RootIsNaN(marginOfError.value)

----------------------------------------------------------------------------
(* Claims about the callbacks of Benchmark.start *)

\* The measured function has been invoked: execute() has timed a batch for
\* getMaxCycles or for getSamples.
FnInvoked == tried # {} \/ samples # <<>>

\* C22: in a run of start() the setups are invoked, each once and in order,
\* before the measured function is invoked for the first time; the teardowns
\* are invoked, each once and in order, after its last invocation, when
\* getSamples has returned; and the run returns after all of them.
C22_SetupsBeforeAndTeardownsAfter ==
    /\ pcStart = "setups" =>
          /\ ~FnInvoked
          /\ invoked = SubSeq(nodes[self].setups, 1, loopIndex)
    /\ pcStart \in {"calibrate", "sample"} => invoked = nodes[self].setups
    /\ pcStart = "teardowns" =>
          /\ pcCycles = "done" /\ pcSamples = "done"
          /\ invoked = nodes[self].setups \o SubSeq(nodes[self].teardowns, 1, loopIndex)
    /\ pcStart = "returned" =>
          /\ pcCycles = "done" /\ pcSamples = "done"
          /\ invoked = nodes[self].setups \o nodes[self].teardowns

\* A run of start() that has returned, on a benchmark with a setup and a
\* teardown, after the measured function was sampled.
C22_Witness ==
    /\ pcStart = "returned"
    /\ nodes[self].setups # <<>>
    /\ nodes[self].teardowns # <<>>
    /\ FnInvoked
    /\ Len(invoked) = Len(nodes[self].setups) + Len(nodes[self].teardowns)

----------------------------------------------------------------------------
(* Claims about the ancestor stack of the SuiteManager *)

\* SuiteManager.addTeardown(fn): _.last(this.currentPath).addTeardown(fn) on
\* a non-empty path, nothing otherwise.
AddTeardown ==
    /\ currentPath # <<>>
    /\ Len(nodes[LastOfPath].teardowns) < MaxSetups
    /\ nodes' = [nodes EXCEPT ![LastOfPath].teardowns =
                    Append(@, [kind |-> "teardown", owner |-> LastOfPath, nr |-> Len(@) + 1])]
    /\ UNCHANGED <<managerOptions, currentPath, callStack, benchmarks, suites, files>>

\* Declarations of a file, of suites, benchmarks, setups and teardowns, nested
\* in any way; the names play no part in the stack and are fixed.
NextDeclarations ==
    \/ AddFilesEnter("f.js") /\ UNCHANGED <<samplesVars, cyclesVars, processVars, analyticsVars, startVars, profileVars>>
    \/ AddFilesReturn /\ UNCHANGED <<samplesVars, cyclesVars, processVars, analyticsVars, startVars, profileVars>>
    \/ AddSuiteEnter("A", EmptyOptions) /\ UNCHANGED <<samplesVars, cyclesVars, processVars, analyticsVars, startVars, profileVars>>
    \/ AddSuiteReturn /\ UNCHANGED <<samplesVars, cyclesVars, processVars, analyticsVars, startVars, profileVars>>
    \/ AddBenchmark("b", EmptyOptions) /\ UNCHANGED <<samplesVars, cyclesVars, processVars, analyticsVars, startVars, profileVars>>
    \/ AddSetup /\ UNCHANGED <<samplesVars, cyclesVars, processVars, analyticsVars, startVars, profileVars>>
    \/ AddTeardown /\ UNCHANGED <<samplesVars, cyclesVars, processVars, analyticsVars, startVars, profileVars>>

SpecDeclarations == InitSuites /\ [][NextDeclarations]_vars

\* The stack outside every running callback: empty before the first file,
\* and the suite of the last file whose require has begun afterwards.
PathOutside ==
    IF callStack # <<>> /\ nodes[callStack[1]].kind = "file" THEN <<>>
    ELSE IF \E n \in NodeIds : nodes[n].kind = "file"
            THEN <<CHOOSE n \in NodeIds :
                      /\ nodes[n].kind = "file"
                      /\ \A m \in NodeIds : nodes[m].kind = "file" => m <= n>>
            ELSE <<>>

\* A step that declares a benchmark, a setup or a teardown
DeclaresLeaf ==
    \/ benchmarks' # benchmarks
    \/ /\ Len(nodes') = Len(nodes)
       /\ callStack' = callStack
       /\ \E n \in NodeIds : \/ Len(nodes'[n].setups) > Len(nodes[n].setups)
                             \/ Len(nodes'[n].teardowns) > Len(nodes[n].teardowns)

\* C23: the ancestor stack is the stack outside every callback followed by
\* the suites whose callbacks are running, innermost last: addSuite puts the
\* suite it declares on top for the time of its callback and takes it off
\* again, so that the stack after the call is the stack before it; and a
\* step of addBenchmark, addSetup or addTeardown leaves the stack alone.
C23_AddSuiteRestoresPath ==
    /\ [](currentPath = PathOutside \o callStack)
    /\ [](callStack # <<>> => LastOfPath = callStack[Len(callStack)])
    /\ [][DeclaresLeaf => currentPath' = currentPath]_vars

\* A suite declared inside another suite's callback has returned, after a
\* setup, a teardown and a benchmark were declared in it; the outer suite's
\* callback is still running.
C23_Witness ==
    /\ Len(callStack) = 1
    /\ nodes[callStack[1]].kind = "suite"
    /\ currentPath = callStack
    /\ \E n \in NodeIds :
          /\ nodes[n].kind = "suite"
          /\ HasParent(n) /\ Parent(n) = callStack[1]
          /\ \E i \in 1..Len(suites) : suites[i] = n
          /\ nodes[n].setups # <<>>
          /\ nodes[n].teardowns # <<>>

----------------------------------------------------------------------------
(* Claims about SuiteManager.getBenchmark *)

\* The result of a find that finds nothing
Undefined == 0

\* getBenchmark(id): this.benchmarks.find(b => b.id === id), the first
\* benchmark of the list with that id
getBenchmark(id) ==
    IF \E i \in 1..Len(benchmarks) : nodes[benchmarks[i]].id = id
       THEN benchmarks[CHOOSE i \in 1..Len(benchmarks) :
                          /\ nodes[benchmarks[i]].id = id
                          /\ \A j \in 1..(i - 1) : nodes[benchmarks[j]].id # id]
       ELSE Undefined

\* Ids that getBenchmark is asked for besides those of the benchmarks: the
\* ids of the suites and one that nothing is declared with
Ids == {nodes[n].id : n \in NodeIds} \cup Names \cup {"none"}

\* C24: getBenchmark of the id of a declared benchmark returns that
\* benchmark, and getBenchmark of an id no benchmark was declared with
\* returns undefined.
C24_GetBenchmarkFindsDeclared ==
    /\ \A i \in 1..Len(benchmarks) :
          getBenchmark(nodes[benchmarks[i]].id) = benchmarks[i]
    /\ \A id \in Ids :
          (\A i \in 1..Len(benchmarks) : nodes[benchmarks[i]].id # id)
              => getBenchmark(id) = Undefined

----------------------------------------------------------------------------
(* Claims about the minimum round duration of Benchmark.start *)

\* (r / 2) / f as a fraction
HalfOver(r, f) == Reduce(FDiv(FDiv(Frac(r, 1), Frac(2, 1)), f))

\* C25: once start() has called getMaxCycles, the minTime it passed is the
\* larger of options.minTime and (r / 2) / 0.01 for the timer's resolution
\* r, and is smaller than neither of the two.
C25_MinTimeIsTheLargerOperand ==
    pcStart \in {"calibrate", "sample", "teardowns", "returned"} =>
        \E r \in TimerResolutions :
            LET passed == Frac(minTime, 1)
                configured == Frac(options.minTime, 1)
            IN  /\ FLe(configured, passed)
                /\ FLe(HalfOver(r, Frac(1, 100)), passed)
                /\ FEq(passed, configured) \/ FEq(passed, HalfOver(r, Frac(1, 100)))

\* A run of start() whose configured minTime is larger than what the timer's
\* resolution asks for, and is what calibration was called with.
C25_Witness ==
    /\ pcStart = "calibrate"
    /\ \A r \in TimerResolutions : FLt(HalfOver(r, Frac(1, 100)), Frac(options.minTime, 1))
    /\ minTime = options.minTime
    /\ tried # {}

----------------------------------------------------------------------------
(* Claims about the minSamples a Benchmark resolves *)

\* The options object addBenchmark passed to the constructor of benchmark n
PassedOptions(n) ==
    MergedOptions(IF HasParent(n) THEN nodes[Parent(n)].options
                                  ELSE DefaultBenchmarkOptions,
                  nodes[n].declared)

\* C26: whatever minSamples the options passed to the Benchmark constructor
\* hold (none, null, zero, a negative number or a number >= 1), the resolved
\* minSamples is a number >= 1: a passed minSamples >= 1 is kept, and a
\* passed minSamples below 1 gives the default minSamples, as a null or
\* absent one does.
C26_ResolvedMinSamplesAtLeastOne ==
    \A n \in NodeIds :
        nodes[n].kind = "benchmark" =>
            LET passed == PassedOptions(n).minSamples
                resolved == nodes[n].options.minSamples
            IN  /\ resolved.tag = "number"
                /\ resolved.val >= 1
                /\ resolved = IF passed.tag = "number" /\ passed.val >= 1
                                 THEN passed
                                 ELSE DefaultBenchmarkOptions.minSamples

\* Benchmarks constructed with a negative minSamples, with minSamples 0 and
\* with minSamples null, each resolved to the default minSamples.
C26_Witness ==
    \E n, m, o \in NodeIds :
        /\ nodes[n].kind = "benchmark" /\ nodes[m].kind = "benchmark" /\ nodes[o].kind = "benchmark"
        /\ PassedOptions(n).minSamples = Num(-1)
        /\ PassedOptions(m).minSamples = Num(0)
        /\ PassedOptions(o).minSamples = Null
        /\ nodes[n].options.minSamples = DefaultBenchmarkOptions.minSamples
        /\ nodes[m].options.minSamples = DefaultBenchmarkOptions.minSamples
        /\ nodes[o].options.minSamples = DefaultBenchmarkOptions.minSamples

----------------------------------------------------------------------------
(* Exceptions in Benchmark.start *)

AfterThrowBug(pc) == "teardowns"

\* Where start() is after a throw at position pc: no try statement surrounds
\* the loops and calls of start(), getMaxCycles, getSamples and execute, so
\* the exception leaves start() at once.
AfterThrow(pc) == "threw"

\* this.setups[i]() throws
SetupThrows ==
    /\ pcStart = "setups"
    /\ LoopContinues(loopIndex, Len(nodes[self].setups))
    /\ invoked' = Append(invoked, nodes[self].setups[loopIndex + 1])
    /\ thrown' = Append(thrown, "setup")
    /\ pcStart' = AfterThrow(pcStart)
    /\ UNCHANGED <<self, loopIndex, attempts, stats, maxTries>>
    /\ UNCHANGED <<pcRun, child, message, messageListener, exitListener,
                   startMessages, worker, channel, exitPending, outcome, lastSent>>
    /\ UNCHANGED <<samplesVars, cyclesVars, suiteVars, analyticsVars, profileVars>>

\* execute() is about to be called by cycle() or by one of the loops of
\* getSamples
ExecuteIsNext ==
    \/ /\ pcStart = "calibrate"
       /\ pcCycles = "loop"
       /\ result.finished = FALSE
       /\ result.count <= MaxCount
    \/ /\ pcStart = "sample"
       /\ \/ pcSamples = "min" /\ MinLoopContinues(cycles)
          \/ pcSamples = "more" /\ MoreLoopContinues(samples, options)

\* fn() throws inside execute()
FnThrows ==
    /\ ExecuteIsNext
    /\ thrown' = Append(thrown, "fn")
    /\ pcStart' = AfterThrow(pcStart)
    /\ UNCHANGED <<self, loopIndex, invoked, attempts, stats, maxTries>>
    /\ UNCHANGED <<pcRun, child, message, messageListener, exitListener,
                   startMessages, worker, channel, exitPending, outcome, lastSent>>
    /\ UNCHANGED <<samplesVars, cyclesVars, suiteVars, analyticsVars, profileVars>>

\* start() with setups and a measured function that may throw
NextThrows ==
    \/ NextStart
    \/ SetupThrows
    \/ FnThrows

SpecThrows == InitStart /\ [][NextThrows]_vars

\* C27: when a setup or the measured function has thrown, start() has been
\* left with the exception: no teardown was invoked before the throw, and
\* afterwards no teardown is invoked and no Result is returned.
C27_ThrowSkipsTeardowns ==
    /\ [](thrown # <<>> =>
            /\ pcStart = "threw"
            /\ Len(thrown) = 1
            /\ \A k \in 1..Len(invoked) : invoked[k].kind # "teardown")
    /\ [][thrown # <<>> => pcStart' = "threw" /\ invoked' = invoked]_vars

\* The measured function threw while samples were collected, in a run of a
\* benchmark with a setup and a teardown.
C27_Witness ==
    /\ thrown = <<"fn">>
    /\ pcStart = "threw"
    /\ samples # <<>>
    /\ nodes[self].setups # <<>>
    /\ nodes[self].teardowns # <<>>
    /\ invoked = nodes[self].setups

----------------------------------------------------------------------------
(* Claims about the worker's last message *)

\* C28: whatever the order of the worker's "message" and "exit" events in
\* the parent, when the exit handler has settled the outcome of a worker
\* that sent an ExitMessage, the outcome holds the last message the worker
\* sent (resolved with it, or rejected with its error), and no further exit
\* event is left that could settle it again.
C28_ExitSettlesWithLastMessage ==
    (outcome.state # "pending" /\ lastSent # UndefinedMessage) =>
        /\ outcome.state = "resolved" => outcome.message = lastSent
        /\ outcome.state = "rejected" => outcome.reason = lastSent.error
        /\ ~exitPending
        /\ worker.state = "exited"

----------------------------------------------------------------------------
(* Calibration with batch timings that vary from pass to pass *)

\* What execute() may return when the measured function's speed varies
BatchTimes == 0..MaxBatchTime

\* One pass of the loop of getMaxCycles in which execute(count) returned time
GetMaxCyclesLoopTimed(time) ==
    /\ pcCycles = "loop"
    /\ result.finished = FALSE
    /\ result.count <= MaxCount
    /\ Cardinality(tried) < MaxPasses
    /\ result' = IF CycleContinues(time, minTime)
                    THEN [count |-> NextCount(result.count, time, minTime), finished |-> FALSE]
                    ELSE [count |-> result.count, finished |-> TRUE]
    /\ tried' = tried \cup {<<result.count, time>>}
    /\ UNCHANGED <<pcCycles, minTime, fnTime, samplesVars, suiteVars, processVars, analyticsVars, startVars, profileVars>>

NextTimedCycles ==
    \/ GetMaxCyclesEnter
    \/ \E time \in BatchTimes : GetMaxCyclesLoopTimed(time)
    \/ GetMaxCyclesReturn

SpecTimedCycles == InitCycles /\ [][NextTimedCycles]_vars

\* C29: in calibration, whatever non-negative times the batches take, the
\* count is a positive integer at every step, and no step lowers it.
C29_CountPositiveAndNeverLower ==
    /\ [](result.count \in Nat /\ result.count >= 1)
    /\ [][result'.count >= result.count]_vars

\* A calibration that has returned after passes with different times per
\* invocation, between which the count grew.
C29_Witness ==
    /\ pcCycles = "done"
    /\ \E p, q \in tried :
          /\ p[1] < q[1]
          /\ 0 < p[2]
          /\ p[2] * q[1] # q[2] * p[1]
          /\ q[1] <= result.count

----------------------------------------------------------------------------
(* getReducedSamples of the cpu-profile-converter *)

\* array[i] for a 0-based index i; undefined beyond the end of the array
At(array, i) == IF i < Len(array) THEN array[i + 1] ELSE Undefined

\* The loop `for (let i = 0; i <= sampleCount; i++)` from index i on, with
\* the locals reducedSampleId and reducedTimeDelta and the two arrays built
\* so far; the profile's sample ids are numbers, never undefined.
RECURSIVE ReduceLoop(_, _, _, _, _)
ReduceLoop(profile, i, reducedSampleId, reducedTimeDelta, out) ==
    IF i > Len(profile.samples) THEN out
    ELSE IF reducedSampleId = At(profile.samples, i)
            THEN ReduceLoop(profile, i + 1, reducedSampleId,
                            reducedTimeDelta + At(profile.timeDeltas, i), out)
            ELSE ReduceLoop(profile, i + 1, At(profile.samples, i),
                            At(profile.timeDeltas, i),
                            [reducedSamples |-> Append(out.reducedSamples, reducedSampleId),
                             reducedTimeDeltas |-> Append(out.reducedTimeDeltas, reducedTimeDelta)])

\* getReducedSamples(cpuProfile)
getReducedSamples(profile) ==
    IF Len(profile.samples) = 0
       THEN [reducedSamples |-> <<>>, reducedTimeDeltas |-> <<>>]
       ELSE ReduceLoop(profile, 0, profile.samples[1], profile.timeDeltas[1],
                       [reducedSamples |-> <<>>, reducedTimeDeltas |-> <<>>])

\* Sequences of length n over the set S
SeqsOfLen(S, n) == [1..n -> S]

\* The profiles: ids of the sampled nodes, and as many time deltas
Profiles ==
    UNION {{[samples |-> ids, timeDeltas |-> deltas] :
               ids \in SeqsOfLen(1..MaxSampleId, n),
               deltas \in SeqsOfLen(0..MaxTimeDelta, n)} : n \in 0..MaxProfileLen}

\* A call of getReducedSamples(cpuProfile)
GetReducedSamples ==
    /\ ~reduced.called
    /\ reduced' = [called |-> TRUE,
                   reducedSamples |-> getReducedSamples(cpuProfile).reducedSamples,
                   reducedTimeDeltas |-> getReducedSamples(cpuProfile).reducedTimeDeltas]
    /\ UNCHANGED cpuProfile

\* A profile that getReducedSamples has not been called with yet; the other
\* components are idle.
InitProfile ==
    /\ cpuProfile \in Profiles
    /\ reduced = [called |-> FALSE]
    /\ batch = <<>>
    /\ analysis = [done |-> FALSE]
    /\ marginOfError = [called |-> FALSE]
    /\ tScore = [called |-> FALSE]
    /\ pcStart = "idle"
    /\ self = 0
    /\ loopIndex = 0
    /\ invoked = <<>>
    /\ attempts = 0
    /\ stats = [done |-> FALSE]
    /\ maxTries = 1
    /\ pcRun = "new"
    /\ child = "undefined"
    /\ message = UndefinedMessage
    /\ messageListener = FALSE
    /\ exitListener = FALSE
    /\ startMessages = <<>>
    /\ worker = [state |-> "none", code |-> 0]
    /\ channel = <<>>
    /\ exitPending = FALSE
    /\ outcome = PendingOutcome
    /\ thrown = <<>>
    /\ lastSent = UndefinedMessage
    /\ managerOptions = DefaultBenchmarkOptions
    /\ nodes = <<>>
    /\ currentPath = <<>>
    /\ callStack = <<>>
    /\ benchmarks = <<>>
    /\ suites = <<>>
    /\ files = <<>>
    /\ options = [minSamples |-> 1, maxSamples |-> 1, maxTime |-> 0]
    /\ samples = <<>>
    /\ cycles = 0
    /\ pcSamples = "idle"
    /\ result = [count |-> 1, finished |-> FALSE]
    /\ minTime = 0
    /\ fnTime = 1
    /\ tried = {}
    /\ pcCycles = "idle"

NextProfile ==
    GetReducedSamples
        /\ UNCHANGED <<samplesVars, cyclesVars, suiteVars, processVars, analyticsVars, startVars>>

SpecProfile == InitProfile /\ [][NextProfile]_vars

\* C30: for a profile with at least one sample and as many time deltas,
\* getReducedSamples returns two arrays of the same length, no sample id of
\* the first equals the one after it, and the reduced time deltas add up to
\* what the profile's time deltas add up to.
C30_ReducedSamplesKeepTheTime ==
    (/\ reduced.called
     /\ cpuProfile.samples # <<>>
     /\ Len(cpuProfile.timeDeltas) = Len(cpuProfile.samples))
        => /\ Len(reduced.reducedSamples) = Len(reduced.reducedTimeDeltas)
           /\ \A k \in 1..(Len(reduced.reducedSamples) - 1) :
                 reduced.reducedSamples[k] # reduced.reducedSamples[k + 1]
           /\ sum(reduced.reducedTimeDeltas) = sum(cpuProfile.timeDeltas)

====
